---- MODULE Spec2Model ----
(***************************************************************************)
(* Model of the git-store repository cache: RepoStore (GetAsync / Get),    *)
(* the AsyncRepoCloner worker goroutine and the credential held by a Repo. *)
(*                                                                         *)
(* RepoStore is modelled from src/unnamed/part_003 lines 134-247 (the      *)
(* channel-based store, the newest RepoStore under src/), AsyncRepoCloner  *)
(* from src/cloner.go lines 41-101 and Repo from src/repo.go lines 14-428. *)
(*                                                                         *)
(* The store takes no lock around rs.repositories, so the statements of    *)
(* GetAsync executed by different goroutines interleave: the map lookup    *)
(* (line 178) and the map insertion (line 188) are separate steps of a     *)
(* caller.  A nil pointer dereference panics and ends the whole process,    *)
(* and so may two concurrent writes of the map.                            *)
(*                                                                         *)
(* Ten specifications share the variables:                                 *)
(*   Spec      the store: GetAsync / Get callers and the clone workers;    *)
(*   CredSpec  the checks GetAsync starts with, Validate and              *)
(*             constructAuthMethod, on any reference;                      *)
(*   NormSpec  one clone worker in detail: the clone of a remote and       *)
(*             cleanNewRepo (src/repo.go lines 65-148) on its references;  *)
(*   RepoSpec  one Ready Repo: goroutines calling Fetch, Checkout and the  *)
(*             read queries under Repo.mutex (src/repo.go lines 158-341);  *)
(*   AuthSpec  the same, with Repo.setAuth and the credential write of     *)
(*             GetAsync on the entry of the Repo;                          *)
(*   FileSpec  one caller of a Ready Repo: Checkout, GetFile,              *)
(*             GetAllFiles, IsFile, IsDirectory and the Files they return  *)
(*             (src/repo.go lines 158-414), while the remote may change    *)
(*             and another goroutine fetches and checks out between the    *)
(*             lock sections of the caller's Checkout and while a query    *)
(*             of the caller reads, unlocked, the commit getHeadCommit     *)
(*             gave it; the clone is in memory (src/cloner.go lines        *)
(*             79-84), so a fetch that stores objects during such a read   *)
(*             may end the process;                                        *)
(*   CheckoutSpec  the same caller with Checkout of every ref, Fetch and   *)
(*             LastUpdated, with the failures of the engine;               *)
(*   BlameSpec the loop of File.FileLog (src/repo.go lines 401-411) on the *)
(*             lines a blame can have;                                     *)
(*   ClassifySpec  getRepoTypeAndUser (src/ref.go lines 33, 78-149) on the *)
(*             locators of its test table;                                 *)
(*   SplitSpec the same, on these locators and on locators whose password  *)
(*             contains a colon.                                           *)
(***************************************************************************)
EXTENDS Integers, FiniteSets, Sequences, TLC

\* ------------------------------------------------------------------ bounds
\* The number of GetAsync / Get calls.  Every call is made by a goroutine of
\* its own, named by the position of the call in the order the calls start:
\* two calls one goroutine makes in sequence are the runs in which the
\* second call starts after the first has returned.
MaxCalls == 2
\* Goroutines that use one Repo, and Repo operations they start in a run.
NumGoroutines == 2
MaxOps == 3
\* Branches of the remote repository besides the one its HEAD names.
MaxOtherBranches == 1
\* Lines of a blame.
MaxLines == 3

Callers == 1..MaxCalls

\* Every call creates at most one AsyncRepoCloner.
EntryIds == 1..MaxCalls

\* Go's nil for *AsyncRepoCloner and *Repo; entry and snapshot ids start at 1.
Nil == 0

\* ------------------------------------------------------------ input domain
\* Locators the callers pass.  Each has the scheme the pattern of
\* Validate captures for it ("" when the pattern does not match at all).
SshLocator == "ssh://git@host.xz/a.git"
HttpLocator == "https://host.xz/b.git"
BadLocator == "not-a-locator"

Locators == {SshLocator, HttpLocator, BadLocator}

\* Private keys: "k1" and "k2" parse, "garbage" does not, "" is no key.
\* Secret is the state of the named secret in the secret store: "" when the
\* reference names none, "lookuperr" when the lookup fails, "nokey" when the
\* secret has no sshPrivateKey entry, otherwise the key it holds.
Refs ==
    { [URL |-> SshLocator, PrivateKey |-> "k1", Secret |-> ""],
      [URL |-> SshLocator, PrivateKey |-> "k2", Secret |-> ""],
      [URL |-> SshLocator, PrivateKey |-> "garbage", Secret |-> ""],
      [URL |-> SshLocator, PrivateKey |-> "", Secret |-> "lookuperr"],
      [URL |-> HttpLocator, PrivateKey |-> "", Secret |-> ""],
      [URL |-> BadLocator, PrivateKey |-> "", Secret |-> ""] }

NoRef == [URL |-> "", PrivateKey |-> "", Secret |-> ""]

\* The nil transport.AuthMethod returned for non-ssh references.
NilAuth == "nilauth"

\* ------------------------------------------------------- pure operations
\* RepoRef.Validate: the locator must match the pattern; the scheme it
\* captures decides the url type.
Validate(ref) ==
    CASE ref.URL = SshLocator -> [ok |-> TRUE, urlType |-> "ssh"]
      [] ref.URL = HttpLocator -> [ok |-> TRUE, urlType |-> "http"]
      [] OTHER -> [ok |-> FALSE, urlType |-> ""]

\* transportSSH.NewPublicKeys: fails when the key bytes do not parse.
NewPublicKeys(key) ==
    IF key \in {"k1", "k2"} THEN [ok |-> TRUE, auth |-> key]
    ELSE [ok |-> FALSE, auth |-> ""]

\* RepoStore.constructSSHAuthMethod
constructSSHAuthMethod(ref) ==
    IF ref.Secret \in {"lookuperr", "nokey"}
    THEN [ok |-> FALSE, auth |-> ""]
    ELSE LET secretKey == ref.Secret
             key == IF ref.PrivateKey # "" THEN ref.PrivateKey ELSE secretKey
         IN  NewPublicKeys(key)

\* RepoStore.constructAuthMethod
constructAuthMethod(ref) ==
    IF Validate(ref).urlType = "ssh"
    THEN constructSSHAuthMethod(ref)
    ELSE [ok |-> TRUE, auth |-> NilAuth]

\* GetAsync returns early, with an error, when validation or credential
\* construction fails.
EarlyReturn_IgnoreAuthError(ref) == ~Validate(ref).ok

EarlyReturn(ref) ==
    ~Validate(ref).ok \/ ~constructAuthMethod(ref).ok

\* ------------------------------------------------- the git repository
\* Names and hashes are sequences of characters, so that the string
\* operations of the code (prefix tests, trimming, concatenation) are
\* computed on them as the code computes them.
RefsHeads == <<"r","e","f","s","/","h","e","a","d","s","/">>
RefsTags == <<"r","e","f","s","/","t","a","g","s","/">>
RefsRemotes == <<"r","e","f","s","/","r","e","m","o","t","e","s","/">>
RefsRemotesOrigin == RefsRemotes \o <<"o","r","i","g","i","n","/">>
HeadName == <<"H","E","A","D">>

master == <<"m","a","s","t","e","r">>
staging == <<"s","t","a","g","i","n","g">>
production == <<"p","r","o","d","u","c","t","i","o","n">>
foo == <<"f","o","o">>
bar == <<"b","a","r">>
head == <<"h","e","a","d">>
BranchNames == {master, staging, production, foo, bar, head}

v1 == <<"v","1">>
nosuch == <<"n","o","s","u","c","h">>

Hash1 == <<"c","1">>
Hash2 == <<"c","2">>
Hash3 == <<"c","3">>
ZeroHash == <<>>

\* strings.HasPrefix, as used by plumbing.ReferenceName.IsBranch.
HasPrefix(s, prefix) ==
    /\ Len(s) >= Len(prefix)
    /\ SubSeq(s, 1, Len(prefix)) = prefix

IsBranch(name) == HasPrefix(name, RefsHeads)

\* strings.TrimLeft(s, cutset): drops every leading character of s that
\* occurs in cutset; the second argument is a set of characters, not a prefix.
RECURSIVE TrimLeft(_, _)
TrimLeft(s, cutset) ==
    IF s # <<>> /\ (\E i \in DOMAIN cutset : cutset[i] = Head(s))
    THEN TrimLeft(Tail(s), cutset)
    ELSE s

\* strings.TrimPrefix(s, prefix): drops prefix when s starts with it.
TrimPrefix(s, prefix) ==
    IF HasPrefix(s, prefix) THEN SubSeq(s, Len(prefix) + 1, Len(s)) ELSE s

\* The function f with key k bound to v.
RefPut(f, k, v) == [x \in DOMAIN f \cup {k} |-> IF x = k THEN v ELSE f[x]]

\* HEAD is a symbolic reference to a branch, or a hash reference (detached).
SymbolicHEAD(name) == [symbolic |-> TRUE, target |-> name, hash |-> ZeroHash]
DetachedHEAD(h) == [symbolic |-> FALSE, target |-> <<>>, hash |-> h]

NoOrigin == [HEAD |-> <<>>, branches |-> <<>>, tags |-> <<>>]
NoRepository ==
    [HEAD |-> DetachedHEAD(ZeroHash), refs |-> <<>>, branches |-> {},
     objects |-> {}, worktree |-> ZeroHash]

\* The commits are one line of history: Hash1, then Hash2, then Hash3.
Ancestors(h) ==
    IF h = Hash1 THEN {Hash1}
    ELSE IF h = Hash2 THEN {Hash1, Hash2}
    ELSE IF h = Hash3 THEN {Hash1, Hash2, Hash3}
    ELSE {}

\* ------------------------------------------------------------------ state
VARIABLES
    repositories,   \* rs.repositories: partial map locator -> entry id
    cloners,        \* the AsyncRepoCloner objects ever created, by id
    callers,        \* each calling goroutine: position and locals
    crashed,        \* the process died of a panic
    calls,          \* number of GetAsync / Get calls started so far
    cloneCalls,     \* history: invocations of the clone primitive per locator
    latestAuth,     \* history: credential derived by the latest GetAsync
    origin,         \* the remote repository: HEAD, branches, tags
    repository,     \* the git.Repository of one Repo: HEAD, refs, config, worktree
    mutex,          \* Repo.mutex: the writer and the readers holding it
    gos,            \* each goroutine using the Repo: position and locals
    nops,           \* number of Repo operations started so far
    session,        \* one caller using a Repo call after call: results, handle
    parsed          \* a locator and what getRepoTypeAndUser returned for it

storeVars ==
    <<repositories, cloners, callers, crashed, calls, cloneCalls, latestAuth>>
gitVars == <<origin, repository>>
repoVars == <<mutex, gos, nops>>
seqVars == <<session, parsed>>
vars == <<storeVars, gitVars, repoVars, seqVars>>

Entries == DOMAIN cloners

Gs == 1..NumGoroutines

\* sync.RWMutex of a Repo: nobody holds it.
FreeMutex == [w |-> Nil, r |-> {}]

\* What a call returned: for a Checkout the commit HEAD was set to, for a
\* read query the commit it read.
NoOutcome == [kind |-> "none", err |-> "", hash |-> ZeroHash]

IdleGo ==
    [pc |-> "idle", op |-> "", ref |-> <<>>, hash |-> ZeroHash,
     fetched |-> FALSE, result |-> NoOutcome]

\* (*File)(nil), and the File of a path at a commit.
NilFile == [Name |-> <<>>, Mode |-> "", Blob |-> "", headCommit |-> ZeroHash]

\* GitLog{}: the zero value.
ZeroGitLog == [Date |-> 0, Hash |-> ZeroHash, Author |-> "", Text |-> ""]

\* No call has been made.
NoCall ==
    [op |-> "", arg |-> <<>>, flag |-> FALSE, err |-> "", errRef |-> <<>>,
     hash |-> ZeroHash, head |-> ZeroHash, before |-> ZeroHash,
     pushed |-> FALSE, again |-> FALSE, alone |-> TRUE, when |-> 0]

\* Another goroutine that is in no call on the Repo.
IdleOther == [pc |-> "idle", ref |-> <<>>, hash |-> ZeroHash]

NoSession ==
    [last |-> NoCall, handle |-> NilFile, files |-> <<>>,
     content |-> "", log |-> ZeroGitLog, logErr |-> "", pushed |-> FALSE,
     lines |-> <<>>, pc |-> "idle", op |-> "", ref |-> <<>>, flag |-> FALSE,
     hash |-> ZeroHash, before |-> ZeroHash, again |-> FALSE, moved |-> FALSE, alone |-> TRUE,
     other |-> IdleOther]

\* No locator: the parts a locator is written from.
NoInput ==
    [kind |-> "", scheme |-> <<>>, user |-> <<>>, pass |-> <<>>, host |-> <<>>,
     port |-> <<>>, path |-> <<>>]

\* getRepoTypeAndUser has not been called.
NoParsed ==
    [input |-> NoInput, url |-> <<>>, done |-> FALSE, urlType |-> 0,
     user |-> <<>>, pass |-> <<>>, err |-> ""]

\* No sequential caller and no classification is modelled.
NoSessionInUse ==
    /\ session = NoSession
    /\ parsed = NoParsed

\* No Repo is in use: the state of the git variables in the runs of the store.
NoRepoInUse ==
    /\ origin = NoOrigin
    /\ repository = NoRepository
    /\ mutex = FreeMutex
    /\ gos = [g \in Gs |-> IdleGo]
    /\ nops = 0

\* The state of an entry as the spec names it.
State(ent) ==
    IF ent.Ready THEN "Ready"
    ELSE IF ent.Error # "" THEN "Failed"
    ELSE "Pending"

\* The done channel of a cloner is closed by the deferred close(done).
DoneClosed(ent) == ent.pc = "closed"

\* The signal a caller holds is closed.
SignalClosed(c) ==
    \/ callers[c].done = "fresh"
    \/ callers[c].done = "clone" /\ DoneClosed(cloners[callers[c].rc])

NoResult == [kind |-> "none", entry |-> Nil, repo |-> Nil, err |-> ""]

IdleCaller ==
    [pc |-> "idle", op |-> "", ref |-> NoRef, auth |-> "", rc |-> Nil,
     done |-> "none", result |-> NoResult]

Init ==
    /\ repositories = <<>>
    /\ cloners = <<>>
    /\ callers = [c \in Callers |-> IdleCaller]
    /\ crashed = FALSE
    /\ calls = 0
    /\ cloneCalls = [u \in Locators |-> 0]
    /\ latestAuth = [u \in Locators |-> ""]
    /\ NoRepoInUse
    /\ NoSessionInUse

\* ---------------------------------------------------------- map helpers
\* rs.repositories[url] = e
MapPut(m, url, e) ==
    [u \in (DOMAIN m) \cup {url} |-> IF u = url THEN e ELSE m[u]]

\* The mutant of MapDelete: the delete statement is never executed.
MapDelete_Unreachable(m, url) == m

\* delete(rs.repositories, url)
MapDelete(m, url) ==
    [u \in (DOMAIN m) \ {url} |-> m[u]]

\* ------------------------------------------------------------ the cloner
\* A new AsyncRepoCloner{RepoRef: ref} whose Clone(auth) goroutine has been
\* started: the worker is inside the clone primitive.
NewCloner(url, auth) ==
    [URL |-> url, Ready |-> FALSE, Repo |-> Nil, Error |-> "",
     CloneAuth |-> auth, RepoAuth |-> "", FetchedWith |-> "",
     pc |-> "cloning"]

\* The mutant of Reuse: the hit path builds a new Repo around the credential
\* instead of updating the existing one.
Reuse_NewRepo(ent, auth) ==
    [ent EXCEPT !.Repo = ent.Repo + MaxCalls + 1, !.RepoAuth = auth]

\* GetAsync on an existing entry: rc.Repo.auth = auth
Reuse(ent, auth) ==
    [ent EXCEPT !.RepoAuth = auth]

\* Worker: rc.Error = err (clone failed, or cleanNewRepo failed), then the
\* deferred Unlock.
WriteError(ent, err) ==
    [ent EXCEPT !.Error = err, !.pc = "unlocked"]

\* The mutant of WriteRepo: the worker goes on to rc.Ready without having
\* stored the Repo.
WriteRepo_NotStored(ent, e) ==
    [ent EXCEPT !.pc = "repo"]

\* Worker: rc.Repo = newRepo(repository, auth); the snapshot of entry e is
\* the object e.
WriteRepo(ent, e) ==
    [ent EXCEPT !.Repo = e, !.RepoAuth = ent.CloneAuth, !.pc = "repo"]

\* Worker: rc.Ready = true, then the deferred Unlock.
WriteReady(ent) ==
    [ent EXCEPT !.Ready = TRUE, !.pc = "unlocked"]

\* Worker: the deferred close(done).
CloseDoneOf(ent) ==
    [ent EXCEPT !.pc = "closed"]

\* Repo.FetchContext: the fetch authenticates with r.auth.
FetchOf(ent) ==
    [ent EXCEPT !.FetchedWith = ent.RepoAuth]

\* --------------------------------------------------------------- actions
\* A caller enters GetAsync (directly, or through Get): Validate, then
\* constructAuthMethod, then the lookup in rs.repositories and, on a hit, the
\* whole reuse branch.
GetAsyncLookup(c, op, ref) ==
    /\ ~crashed
    /\ UNCHANGED <<gitVars, repoVars, seqVars>>
    /\ callers[c].pc = "idle"
    /\ calls = c - 1
    /\ calls' = calls + 1
    /\ LET auth == constructAuthMethod(ref).auth
           me == [IdleCaller EXCEPT !.op = op, !.ref = ref]
       IN
       IF EarlyReturn(ref)
       THEN /\ callers' = [callers EXCEPT ![c] =
                   [me EXCEPT !.pc = "returned",
                              !.result = [NoResult EXCEPT !.kind = "error"]]]
            /\ UNCHANGED <<repositories, cloners, crashed, cloneCalls, latestAuth>>
       ELSE IF ref.URL \in DOMAIN repositories
       THEN LET e == repositories[ref.URL] IN
            IF cloners[e].Repo = Nil
            THEN \* rc.Repo.auth = auth dereferences the nil rc.Repo
                 /\ crashed' = TRUE
                 /\ callers' = [callers EXCEPT ![c] =
                        [me EXCEPT !.pc = "panicked",
                                   !.result = [NoResult EXCEPT !.kind = "panic"]]]
                 /\ UNCHANGED <<repositories, cloners, cloneCalls, latestAuth>>
            ELSE /\ cloners' = [cloners EXCEPT ![e] = Reuse(cloners[e], auth)]
                 /\ latestAuth' = [latestAuth EXCEPT ![ref.URL] = auth]
                 /\ callers' = [callers EXCEPT ![c] =
                        [me EXCEPT !.rc = e, !.done = "fresh",
                                   !.pc = IF op = "Get" THEN "select" ELSE "returned",
                                   !.result = IF op = "Get" THEN NoResult
                                              ELSE [NoResult EXCEPT !.kind = "entry",
                                                                    !.entry = e]]]
                 /\ UNCHANGED <<repositories, crashed, cloneCalls>>
       ELSE /\ callers' = [callers EXCEPT ![c] =
                   [me EXCEPT !.auth = auth, !.pc = "insert"]]
            /\ UNCHANGED <<repositories, cloners, crashed, cloneCalls, latestAuth>>

\* After a miss: create the cloner, store it in the map, start Clone(auth).
GetAsyncInsert(c) ==
    /\ ~crashed
    /\ UNCHANGED <<gitVars, repoVars, seqVars>>
    /\ callers[c].pc = "insert"
    /\ LET url == callers[c].ref.URL
           e == Len(cloners) + 1
       IN
       /\ cloners' = Append(cloners, NewCloner(url, callers[c].auth))
       /\ repositories' = MapPut(repositories, url, e)
       /\ cloneCalls' = [cloneCalls EXCEPT ![url] = @ + 1]
       /\ latestAuth' = [latestAuth EXCEPT ![url] = callers[c].auth]
       /\ callers' = [callers EXCEPT
              ![c].rc = e, ![c].done = "clone", ![c].auth = "",
              ![c].pc = IF callers[c].op = "Get" THEN "select" ELSE "returned",
              ![c].result = IF callers[c].op = "Get" THEN NoResult
                            ELSE [NoResult EXCEPT !.kind = "entry", !.entry = e]]
    /\ UNCHANGED <<crashed, calls>>

\* Get: select on the done channel, then read rc.Error / rc.Repo.
GetSelect(c) ==
    /\ ~crashed
    /\ UNCHANGED <<gitVars, repoVars, seqVars>>
    /\ callers[c].pc = "select"
    /\ SignalClosed(c)
    /\ LET e == callers[c].rc
           ent == cloners[e]
       IN
       IF ent.Error # ""
       THEN /\ repositories' = MapDelete(repositories, callers[c].ref.URL)
            /\ callers' = [callers EXCEPT
                   ![c].pc = "returned",
                   ![c].result = [NoResult EXCEPT !.kind = "err", !.entry = e,
                                                  !.err = ent.Error]]
       ELSE /\ repositories' = repositories
            /\ callers' = [callers EXCEPT
                   ![c].pc = "returned",
                   ![c].result = [NoResult EXCEPT !.kind = "repo", !.entry = e,
                                                  !.repo = ent.Repo]]
    /\ UNCHANGED <<cloners, crashed, calls, cloneCalls, latestAuth>>

\* Worker of entry e: the clone primitive or cleanNewRepo returned an error.
CloneFails(e, err) ==
    /\ ~crashed
    /\ UNCHANGED <<gitVars, repoVars, seqVars>>
    /\ e \in Entries
    /\ cloners[e].pc = "cloning"
    /\ cloners' = [cloners EXCEPT ![e] = WriteError(cloners[e], err)]
    /\ UNCHANGED <<repositories, callers, crashed, calls, cloneCalls, latestAuth>>

\* Worker of entry e: clone and cleanNewRepo succeeded, rc.Repo is written.
CloneSetRepo(e) ==
    /\ ~crashed
    /\ UNCHANGED <<gitVars, repoVars, seqVars>>
    /\ e \in Entries
    /\ cloners[e].pc = "cloning"
    /\ cloners' = [cloners EXCEPT ![e] = WriteRepo(cloners[e], e)]
    /\ UNCHANGED <<repositories, callers, crashed, calls, cloneCalls, latestAuth>>

\* Worker of entry e: rc.Ready is written.
CloneSetReady(e) ==
    /\ ~crashed
    /\ UNCHANGED <<gitVars, repoVars, seqVars>>
    /\ e \in Entries
    /\ cloners[e].pc = "repo"
    /\ cloners' = [cloners EXCEPT ![e] = WriteReady(cloners[e])]
    /\ UNCHANGED <<repositories, callers, crashed, calls, cloneCalls, latestAuth>>

\* Worker of entry e: the done channel is closed.
CloseDone(e) ==
    /\ ~crashed
    /\ UNCHANGED <<gitVars, repoVars, seqVars>>
    /\ e \in Entries
    /\ cloners[e].pc = "unlocked"
    /\ cloners' = [cloners EXCEPT ![e] = CloseDoneOf(cloners[e])]
    /\ UNCHANGED <<repositories, callers, crashed, calls, cloneCalls, latestAuth>>

\* Caller c is about to write rs.repositories: the insertion of GetAsync or
\* the delete of Get.
AboutToWriteMap(c) ==
    \/ callers[c].pc = "insert"
    \/ /\ callers[c].pc = "select"
       /\ SignalClosed(c)
       /\ cloners[callers[c].rc].Error # ""

\* No lock guards rs.repositories.  When two goroutines write the map at the
\* same time the Go runtime may detect it ("concurrent map writes") and end
\* the process; when it does not, the writes take effect one after the other
\* (GetAsyncInsert, GetSelect).
ConcurrentMapWrites(c, d) ==
    /\ ~crashed
    /\ UNCHANGED <<gitVars, repoVars, seqVars>>
    /\ c < d
    /\ AboutToWriteMap(c)
    /\ AboutToWriteMap(d)
    /\ crashed' = TRUE
    /\ UNCHANGED <<repositories, cloners, callers, calls, cloneCalls, latestAuth>>

\* A caller that holds entry e calls Fetch on its Repo.
Fetch(c) ==
    /\ ~crashed
    /\ UNCHANGED <<gitVars, repoVars, seqVars>>
    /\ callers[c].pc = "returned"
    /\ callers[c].rc # Nil
    /\ cloners[callers[c].rc].Repo # Nil
    /\ cloners' = [cloners EXCEPT ![callers[c].rc] = FetchOf(cloners[callers[c].rc])]
    /\ UNCHANGED <<repositories, callers, crashed, calls, cloneCalls, latestAuth>>

Next ==
    \/ \E c \in Callers, op \in {"GetAsync", "Get"}, ref \in Refs :
           GetAsyncLookup(c, op, ref)
    \/ \E c \in Callers : GetAsyncInsert(c)
    \/ \E c \in Callers : GetSelect(c)
    \/ \E e \in EntryIds, err \in {"clone", "clean"} : CloneFails(e, err)
    \/ \E e \in EntryIds : CloneSetRepo(e)
    \/ \E e \in EntryIds : CloneSetReady(e)
    \/ \E e \in EntryIds : CloseDone(e)
    \/ \E c \in Callers : Fetch(c)
    \/ \E c \in Callers, d \in Callers : ConcurrentMapWrites(c, d)

Spec == Init /\ [][Next]_vars

\* ------------------------------------------- clone and normalization
\* The remote repositories a clone is taken from: HEAD names a branch, up
\* to MaxOtherBranches further branches exist, every branch is at one of
\* two commits, and there is one tag.
OtherBranches(x) ==
    {o \in SUBSET (BranchNames \ {x}) : Cardinality(o) <= MaxOtherBranches}

Origins ==
    UNION {UNION {{[HEAD |-> x, branches |-> f, tags |-> [t \in {v1} |-> Hash1]] :
                      f \in [{x} \cup others -> {Hash1, Hash2}]} :
                  others \in OtherBranches(x)} :
           x \in BranchNames}

\* The references a fetch of the remote o writes: its branches as
\* remote-tracking references, its tags as tags.
FetchedRefs(o) ==
    [n \in {RefsRemotesOrigin \o b : b \in DOMAIN o.branches}
             \cup {RefsTags \o t : t \in DOMAIN o.tags} |->
        IF HasPrefix(n, RefsRemotesOrigin)
        THEN o.branches[TrimPrefix(n, RefsRemotesOrigin)]
        ELSE o.tags[TrimPrefix(n, RefsTags)]]

\* git.Clone / git.PlainClone of the remote o: the remote's branches and
\* tags are fetched, the branch HEAD names is created locally with its
\* branch configuration, and is checked out.
Clone(o) ==
    [HEAD |-> SymbolicHEAD(RefsHeads \o o.HEAD),
     refs |-> RefPut(FetchedRefs(o), RefsHeads \o o.HEAD, o.branches[o.HEAD]),
     branches |-> {o.HEAD},
     objects |-> UNION {Ancestors(FetchedRefs(o)[n]) : n \in DOMAIN FetchedRefs(o)},
     worktree |-> o.branches[o.HEAD]]

\* repo.Head(): the reference HEAD resolves to.
RepositoryHead(repo) ==
    IF ~repo.HEAD.symbolic
    THEN [ok |-> TRUE, hash |-> repo.HEAD.hash]
    ELSE IF repo.HEAD.target \in DOMAIN repo.refs
    THEN [ok |-> TRUE, hash |-> repo.refs[repo.HEAD.target]]
    ELSE [ok |-> FALSE, hash |-> ZeroHash]

\* The mutant of WorktreeCheckout: HEAD is left where it was.
WorktreeCheckout_KeepHEAD(repo, hash) ==
    [repo EXCEPT !.worktree = hash]

\* worktree.Checkout(&git.CheckoutOptions{Hash: hash, Force: true}): HEAD
\* becomes a hash reference and the worktree is reset to the commit.
WorktreeCheckout(repo, hash) ==
    [repo EXCEPT !.HEAD = DetachedHEAD(hash), !.worktree = hash]

\* The engine calls of cleanNewRepo that may fail for a reason of their own.
CleanFaults == {"none", "checkout", "branches", "references"}
EngineErrors == {"clone", "checkout", "branches", "references"}

\* checkoutHeadHash: checks out the hash HEAD points at.
checkoutHeadHash(repo, fault) ==
    LET h == RepositoryHead(repo) IN
    IF ~h.ok THEN [err |-> "head", repo |-> repo]
    ELSE IF fault = "checkout" THEN [err |-> "checkout", repo |-> repo]
    ELSE [err |-> "", repo |-> WorktreeCheckout(repo, h.hash)]

\* repo.DeleteBranch(name): removes the branch configuration name, and
\* fails when the configuration has no branch of that name.
DeleteBranch(repo, name) ==
    IF name \notin repo.branches
    THEN [err |-> "branch not found", repo |-> repo]
    ELSE [err |-> "", repo |-> [repo EXCEPT !.branches = @ \ {name}]]

\* repo.Branches(): the references refs/heads/*.
Branches(repo) == {n \in DOMAIN repo.refs : IsBranch(n)}

\* The ForEach of cleanLocalBranches over the branch references names.
RECURSIVE DeleteBranches(_, _)
DeleteBranches(repo, names) ==
    IF names = {} THEN [err |-> "", repo |-> repo]
    ELSE LET n == CHOOSE x \in names : TRUE
             branch == TrimLeft(n, RefsHeads)
             r == DeleteBranch(repo, branch)
         IN IF r.err # "" THEN r
            ELSE DeleteBranches(r.repo, names \ {n})

\* cleanLocalBranches: deletes the configuration of every local branch.
cleanLocalBranches(repo, fault) ==
    IF fault = "branches" THEN [err |-> "branches", repo |-> repo]
    ELSE DeleteBranches(repo, Branches(repo))

\* The mutant of cleanLocalReferences: no reference is removed.
cleanLocalReferences_Keep(repo, fault) ==
    IF fault = "references" THEN [err |-> "references", repo |-> repo]
    ELSE [err |-> "", repo |-> repo]

\* cleanLocalReferences: removes every reference refs/heads/*.
cleanLocalReferences(repo, fault) ==
    IF fault = "references" THEN [err |-> "references", repo |-> repo]
    ELSE [err |-> "",
          repo |-> [repo EXCEPT !.refs =
                      [n \in DOMAIN repo.refs \ Branches(repo) |-> repo.refs[n]]]]

\* The mutant of cleanNewRepo: the errors of the three steps are dropped.
cleanNewRepo_IgnoreErrors(repo, fault) ==
    LET a == checkoutHeadHash(repo, fault)
        b == cleanLocalBranches(a.repo, fault)
        c == cleanLocalReferences(b.repo, fault)
    IN [err |-> "", repo |-> c.repo]

\* cleanNewRepo: the three steps in order, stopping at the first error.
cleanNewRepo(repo, fault) ==
    LET a == checkoutHeadHash(repo, fault) IN
    IF a.err # "" THEN a
    ELSE LET b == cleanLocalBranches(a.repo, fault) IN
         IF b.err # "" THEN b
         ELSE cleanLocalReferences(b.repo, fault)

\* The worker of the one entry: the clone primitive returns.
ClonePrimitive(e, fault) ==
    /\ e \in Entries
    /\ cloners[e].pc = "cloning"
    /\ repository = NoRepository
    /\ IF fault = "clone"
       THEN /\ cloners' = [cloners EXCEPT ![e] = WriteError(cloners[e], "clone")]
            /\ repository' = repository
       ELSE /\ repository' = Clone(origin)
            /\ cloners' = cloners
    /\ UNCHANGED <<repositories, callers, crashed, calls, cloneCalls, latestAuth,
                   origin, repoVars, seqVars>>

\* The worker of the one entry, holding rc.mutex: cleanNewRepo, then
\* rc.Error, or rc.Repo and rc.Ready.
CleanNewRepo(e, fault) ==
    /\ e \in Entries
    /\ cloners[e].pc = "cloning"
    /\ repository # NoRepository
    /\ LET r == cleanNewRepo(repository, fault) IN
       /\ repository' = r.repo
       /\ cloners' = [cloners EXCEPT ![e] =
              IF r.err # "" THEN WriteError(cloners[e], r.err)
              ELSE WriteReady(WriteRepo(cloners[e], e))]
    /\ UNCHANGED <<repositories, callers, crashed, calls, cloneCalls, latestAuth,
                   origin, repoVars, seqVars>>

\* One entry has been registered and its worker started; the remote is any
\* of Origins.
NormInit ==
    /\ repositories = MapPut(<<>>, SshLocator, 1)
    /\ cloners = <<NewCloner(SshLocator,
                    constructAuthMethod([URL |-> SshLocator, PrivateKey |-> "k1",
                                         Secret |-> ""]).auth)>>
    /\ callers = [c \in Callers |-> IdleCaller]
    /\ crashed = FALSE
    /\ calls = 0
    /\ cloneCalls = [u \in Locators |-> IF u = SshLocator THEN 1 ELSE 0]
    /\ latestAuth = [u \in Locators |-> ""]
    /\ origin \in Origins
    /\ repository = NoRepository
    /\ mutex = FreeMutex
    /\ gos = [g \in Gs |-> IdleGo]
    /\ nops = 0
    /\ NoSessionInUse

NormNext ==
    \/ \E e \in EntryIds, fault \in {"none", "clone"} : ClonePrimitive(e, fault)
    \/ \E e \in EntryIds, fault \in CleanFaults : CleanNewRepo(e, fault)
    \/ \E e \in EntryIds : CloseDone(e)

NormSpec == NormInit /\ [][NormNext]_vars

\* ------------------------------------------------- the Repo in use
\* The remote of the Repo in use: master and a release branch v1, and a
\* tag v1 on an older commit than the branch of that name.
master_v1 == {master, v1}
RepoOrigin ==
    [HEAD |-> master,
     branches |-> [b \in master_v1 |-> Hash2],
     tags |-> [t \in {v1} |-> Hash1]]

\* The references Checkout is called with: a branch name, a name that is a
\* tag and a branch, a commit hash, a full reference name of a local
\* branch, and a name nothing has.
CheckoutRefs == {master, v1, Hash3, RefsHeads \o master, nosuch}

\* The calls a goroutine makes: Fetch(), or Checkout(ref).
OpCalls ==
    {<<"Fetch", <<>>>>} \cup {<<"Checkout", ref>> : ref \in CheckoutRefs}

\* Someone pushes to the remote: master advances to the next commit.
PushOnto(o) == [o EXCEPT !.branches[master] = Hash3]

\* The reference names ResolveRevision tries for rev, in order: rev itself,
\* then refs/<rev>, refs/tags/<rev>, refs/heads/<rev>, refs/remotes/<rev>,
\* refs/remotes/<rev>/HEAD.
RevParseCandidates(rev) ==
    <<rev,
      <<"r","e","f","s","/">> \o rev,
      RefsTags \o rev,
      RefsHeads \o rev,
      RefsRemotes \o rev,
      RefsRemotes \o rev \o <<"/">> \o HeadName>>

\* The hash the reference name resolves to (HEAD through its target).
ResolveReference(repo, name) ==
    IF name = HeadName THEN RepositoryHead(repo)
    ELSE IF name \in DOMAIN repo.refs
    THEN [ok |-> TRUE, hash |-> repo.refs[name]]
    ELSE [ok |-> FALSE, hash |-> ZeroHash]

\* repository.ResolveRevision(rev): the first candidate name that is a
\* reference, else rev as the hash of a commit the repository has.
ResolveRevision(repo, rev) ==
    LET cands == RevParseCandidates(rev)
        hits == {i \in DOMAIN cands : ResolveReference(repo, cands[i]).ok}
    IN IF hits # {}
       THEN ResolveReference(repo, cands[CHOOSE i \in hits : \A j \in hits : i <= j])
       ELSE IF rev \in repo.objects
       THEN [ok |-> TRUE, hash |-> rev]
       ELSE [ok |-> FALSE, hash |-> ZeroHash]

\* The mutant of parseReference: the remote-tracking name is tried first.
parseReference_RemoteFirst(repo, ref) ==
    LET remote == ResolveRevision(repo, RefsRemotesOrigin \o ref) IN
    IF remote.ok THEN remote
    ELSE ResolveRevision(repo, ref)

\* parseReference: ref as it is, and only when that fails
\* "refs/remotes/origin" + "/" + ref.
parseReference(repo, ref) ==
    LET literal == ResolveRevision(repo, ref) IN
    IF literal.ok THEN literal
    ELSE ResolveRevision(repo, RefsRemotesOrigin \o ref)

\* The mutant of FetchOnto: the remote's branches are written to refs/heads/*.
FetchOnto_LocalBranches(repo, o) ==
    [repo EXCEPT
        !.refs = [n \in DOMAIN repo.refs
                         \cup {RefsHeads \o b : b \in DOMAIN o.branches} |->
                     IF IsBranch(n) THEN o.branches[TrimPrefix(n, RefsHeads)]
                     ELSE repo.refs[n]]]

\* The mutant of FetchOnto: the fetch also moves HEAD to the tip of the
\* remote's HEAD branch, as a pull would.
FetchOnto_MoveHEAD(repo, o) ==
    [repo EXCEPT
        !.refs = [n \in DOMAIN repo.refs \cup DOMAIN FetchedRefs(o) |->
                     IF n \in DOMAIN FetchedRefs(o) THEN FetchedRefs(o)[n]
                     ELSE repo.refs[n]],
        !.objects = @ \cup UNION {Ancestors(FetchedRefs(o)[n]) :
                                     n \in DOMAIN FetchedRefs(o)},
        !.HEAD = DetachedHEAD(o.branches[o.HEAD])]

\* repository.FetchContext with Force and AllTags: the remote's branches are
\* written to refs/remotes/origin/*, its tags to refs/tags/*, and their
\* commits are stored.
FetchOnto(repo, o) ==
    [repo EXCEPT
        !.refs = [n \in DOMAIN repo.refs \cup DOMAIN FetchedRefs(o) |->
                     IF n \in DOMAIN FetchedRefs(o) THEN FetchedRefs(o)[n]
                     ELSE repo.refs[n]],
        !.objects = @ \cup UNION {Ancestors(FetchedRefs(o)[n]) :
                                     n \in DOMAIN FetchedRefs(o)}]

\* What the engine's fetch returns: nothing new, updated, or an error.
FetchResult(repo, o, fault) ==
    IF fault THEN "error"
    ELSE IF FetchOnto(repo, o) = repo THEN "already up-to-date"
    ELSE "ok"

\* Repo.FetchContext reports an engine error other than NoErrAlreadyUpToDate.
FetchFailed(res) == res \notin {"ok", "already up-to-date"}

\* worktree.Checkout fails: before HEAD is set ("head"), or in the reset of
\* the worktree after HEAD was set ("reset").
WorktreeCheckoutFails(repo, hash, stage) ==
    IF stage = "reset" THEN [repo EXCEPT !.HEAD = DetachedHEAD(hash)]
    ELSE repo

CheckoutFaults == {"none", "head", "reset"}

\* The mutant of AfterFetch: CheckoutContext ignores the error of its fetch.
AfterFetch_IgnoreError(op, failed) ==
    IF op = "Checkout" THEN "parse" ELSE "idle"

\* Where a call continues after its fetch: CheckoutContext goes on to
\* parseReference unless the fetch failed; FetchContext returns.
AfterFetch(op, failed) ==
    IF op = "Checkout" /\ ~failed THEN "parse" ELSE "idle"

\* The mutant of Unlocked: a call returns without unlocking.
Unlocked_Never(m) == m

\* r.mutex.Unlock(), explicit or deferred, of the goroutine that holds it.
Unlocked(m) == [m EXCEPT !.w = Nil]

\* The mutant of Lockable: Lock does not wait for the writer to unlock.
Lockable_Always(m) == m.r = {}

\* mutex.Lock() returns when no writer and no reader holds the mutex.
Lockable(m) == m.w = Nil /\ m.r = {}

\* The mutant of RLockable: RLock does not wait for the writer to unlock.
RLockable_Always(m) == TRUE

\* mutex.RLock() returns when no writer holds the mutex.
RLockable(m) == m.w = Nil

\* Goroutine g calls Fetch() or Checkout(ref): FetchContext takes the lock
\* and the engine's fetch starts, with r.auth as its credential.
FetchLock(g, op, ref) ==
    /\ ~crashed
    /\ gos[g].pc = "idle"
    /\ nops < MaxOps
    /\ Lockable(mutex)
    /\ mutex' = [mutex EXCEPT !.w = g]
    /\ gos' = [gos EXCEPT ![g] =
           [IdleGo EXCEPT !.pc = "fetching", !.op = op, !.ref = ref]]
    /\ nops' = nops + 1
    /\ UNCHANGED <<storeVars, seqVars, gitVars>>

\* The engine's fetch of g returns; FetchContext unlocks and returns, and
\* CheckoutContext returns the error or goes on.
FetchDone(g, fault) ==
    /\ ~crashed
    /\ gos[g].pc = "fetching"
    /\ LET res == FetchResult(repository, origin, fault)
           next == AfterFetch(gos[g].op, FetchFailed(res))
       IN
       /\ repository' = IF fault THEN repository ELSE FetchOnto(repository, origin)
       /\ gos' = [gos EXCEPT
              ![g].pc = next,
              ![g].fetched = ~FetchFailed(res),
              ![g].result =
                  IF next # "idle" THEN NoOutcome
                  ELSE IF FetchFailed(res)
                  THEN [NoOutcome EXCEPT !.kind = "error", !.err = "fetch"]
                  ELSE [NoOutcome EXCEPT !.kind = "ok"]]
    /\ mutex' = Unlocked(mutex)
    /\ UNCHANGED <<storeVars, seqVars, origin, nops>>

\* CheckoutContext of g: parseReference under the read lock.
ParseReference(g) ==
    /\ ~crashed
    /\ gos[g].pc = "parse"
    /\ RLockable(mutex)
    /\ LET h == parseReference(repository, gos[g].ref) IN
       gos' = [gos EXCEPT
           ![g].pc = IF h.ok THEN "checkout" ELSE "idle",
           ![g].hash = h.hash,
           ![g].result = IF h.ok THEN NoOutcome
                         ELSE [NoOutcome EXCEPT !.kind = "error", !.err = "parse"]]
    /\ UNCHANGED <<storeVars, seqVars, gitVars, mutex, nops>>

\* CheckoutContext of g takes the lock and the engine's checkout starts.
CheckoutLock(g) ==
    /\ ~crashed
    /\ gos[g].pc = "checkout"
    /\ Lockable(mutex)
    /\ mutex' = [mutex EXCEPT !.w = g]
    /\ gos' = [gos EXCEPT ![g].pc = "checkingout"]
    /\ UNCHANGED <<storeVars, seqVars, gitVars, nops>>

\* The engine's checkout of g returns; CheckoutContext unlocks and returns.
CheckoutDone(g, fault) ==
    /\ ~crashed
    /\ gos[g].pc = "checkingout"
    /\ repository' = IF fault = "none"
                     THEN WorktreeCheckout(repository, gos[g].hash)
                     ELSE WorktreeCheckoutFails(repository, gos[g].hash, fault)
    /\ gos' = [gos EXCEPT
           ![g].pc = "idle",
           ![g].result = IF fault = "none"
                         THEN [NoOutcome EXCEPT !.kind = "ok", !.hash = gos[g].hash]
                         ELSE [NoOutcome EXCEPT !.kind = "error", !.err = "checkout"]]
    /\ mutex' = Unlocked(mutex)
    /\ UNCHANGED <<storeVars, seqVars, origin, nops>>

\* ------------------------------------------- files of a commit, reads
LICENSE == <<"L","I","C","E","N","S","E">>
CHANGELOG == <<"C","H","A","N","G","E","L","O","G">>
link == <<"l","i","n","k">>
vendor == <<"v","e","n","d","o","r">>
vendor_foo == vendor \o <<"/","f","o","o",".","g","o">>
Paths == {LICENSE, CHANGELOG, link, vendor_foo, vendor}

\* The blobs of the tree of each commit: the first commit has the license,
\* the second adds the changelog and a symlink, the third changes the
\* changelog and adds vendor/foo.go.
Tree(h) ==
    IF h = Hash1
    THEN {[Name |-> LICENSE, Mode |-> "regular", Blob |-> "license"]}
    ELSE IF h = Hash2
    THEN {[Name |-> LICENSE, Mode |-> "regular", Blob |-> "license"],
          [Name |-> CHANGELOG, Mode |-> "regular", Blob |-> "Initial changelog"],
          [Name |-> link, Mode |-> "symlink", Blob |-> "LICENSE"]}
    ELSE IF h = Hash3
    THEN {[Name |-> LICENSE, Mode |-> "regular", Blob |-> "license"],
          [Name |-> CHANGELOG, Mode |-> "regular", Blob |-> "Second changelog"],
          [Name |-> link, Mode |-> "symlink", Blob |-> "LICENSE"],
          [Name |-> vendor_foo, Mode |-> "regular", Blob |-> "package foo"]}
    ELSE {}

\* The blob of path in the tree of commit h, "" when the tree has no such file.
BlobAt(h, path) ==
    IF \E e \in Tree(h) : e.Name = path
    THEN (CHOOSE e \in Tree(h) : e.Name = path).Blob
    ELSE ""

\* Commit time, as a number that grows along the history.
DateOf(h) ==
    IF h = Hash1 THEN 1 ELSE IF h = Hash2 THEN 2 ELSE IF h = Hash3 THEN 3 ELSE 0

Parent(h) ==
    IF h = Hash2 THEN Hash1 ELSE IF h = Hash3 THEN Hash2 ELSE ZeroHash

\* The author of a commit.
AuthorOf(h) == IF h = Hash1 THEN "ann@host.xz" ELSE "bob@host.xz"

\* git.Blame(commit, path).Lines: one line per commit, up to this one, that
\* wrote content of the file which is still as it was written.
BlameLines(h, path) ==
    LET cs == {c \in Ancestors(h) :
                  /\ BlobAt(c, path) = BlobAt(h, path)
                  /\ BlobAt(Parent(c), path) # BlobAt(c, path)}
        ordered == [i \in 1..Cardinality(cs) |->
                       CHOOSE c \in cs :
                           Cardinality({d \in cs : DateOf(d) < DateOf(c)}) = i - 1]
    IN [i \in DOMAIN ordered |->
           [Date |-> DateOf(ordered[i]), Hash |-> ordered[i],
            Author |-> AuthorOf(ordered[i]), Text |-> BlobAt(ordered[i], path)]]

\* The File of a tree entry, anchored at the commit it was found in.
FileOf(e, h) ==
    [Name |-> e.Name, Mode |-> e.Mode, Blob |-> e.Blob, headCommit |-> h]

\* getHeadCommit: repository.Head() and CommitObject of its hash, read under
\* the read lock; the commit, or that there is none.
getHeadCommit(repo) ==
    LET head_ == RepositoryHead(repo) IN
    IF ~head_.ok \/ head_.hash \notin repo.objects
    THEN [ok |-> FALSE, hash |-> ZeroHash]
    ELSE [ok |-> TRUE, hash |-> head_.hash]

\* The mutant of GetFile: the path is looked up in the commit of the worktree.
GetFile_Worktree(commit, path) ==
    LET h == repository.worktree IN
    IF \E e \in Tree(h) : e.Name = path
    THEN [err |-> "", file |-> FileOf(CHOOSE e \in Tree(h) : e.Name = path, h)]
    ELSE [err |-> "unable to load file", file |-> NilFile]

\* GetFile, given what getHeadCommit returned: the error, or commit.File(path)
\* and the File anchored at the commit.
GetFile(commit, path) ==
    IF ~commit.ok
    THEN [err |-> "unable to fetch HEAD commit", file |-> NilFile]
    ELSE IF \E e \in Tree(commit.hash) : e.Name = path
    THEN [err |-> "",
          file |-> FileOf(CHOOSE e \in Tree(commit.hash) : e.Name = path,
                          commit.hash)]
    ELSE [err |-> "unable to load file", file |-> NilFile]

\* The characters of patterns and paths in the order of their code points:
\* the printable characters of ASCII, from the space (32) to the tilde
\* (126); the grave accent (96), which no pattern or path here has, is
\* written by its name.
Runes ==
    <<" ", "!", "\"", "#", "$", "%", "&", "'", "(", ")", "*", "+", ",", "-",
      ".", "/", "0", "1", "2", "3", "4", "5", "6", "7", "8", "9", ":", ";",
      "<", "=", ">", "?", "@", "A", "B", "C", "D", "E", "F", "G", "H", "I",
      "J", "K", "L", "M", "N", "O", "P", "Q", "R", "S", "T", "U", "V", "W",
      "X", "Y", "Z", "[", "\\", "]", "^", "_", "grave", "a", "b", "c", "d", "e",
      "f", "g", "h", "i", "j", "k", "l", "m", "n", "o", "p", "q", "r", "s",
      "t", "u", "v", "w", "x", "y", "z", "{", "|", "}", "~">>

\* The place of a character in that order.
Ord(c) == CHOOSE i \in DOMAIN Runes : Runes[i] = c

\* The glob of the matcher reads text up to the first character of breakers
\* that no backslash escapes: the characters read, the backslashes dropped,
\* and the pattern left.
RECURSIVE fetchText(_, _)
fetchText(p, breakers) ==
    IF p = <<>> THEN [data |-> <<>>, rest |-> <<>>]
    ELSE IF Head(p) = "\\"
    THEN IF Len(p) = 1 THEN [data |-> <<>>, rest |-> <<>>]
         ELSE LET t == fetchText(SubSeq(p, 3, Len(p)), breakers)
              IN [data |-> <<p[2]>> \o t.data, rest |-> t.rest]
    ELSE IF Head(p) \in breakers THEN [data |-> <<>>, rest |-> p]
    ELSE LET t == fetchText(Tail(p), breakers)
         IN [data |-> <<Head(p)>> \o t.data, rest |-> t.rest]

\* A character class that does not parse.
NoRange ==
    [ok |-> FALSE, not |-> FALSE, range |-> FALSE, lo |-> "", hi |-> "",
     chars |-> <<>>, rest |-> <<>>]

\* The character class whose "[" comes before p: an optional "!", then
\* either lo-hi, with hi not below lo, or a list of characters that is not
\* empty, then "]".  Anything else is an error of glob.Compile.
fetchRange(p) ==
    LET not == p # <<>> /\ Head(p) = "!"
        q == IF not THEN Tail(p) ELSE p
        t == fetchText(q, {"]"})
    IN IF q = <<>> THEN NoRange
       ELSE IF Len(q) >= 2 /\ q[2] = "-"
       THEN IF Len(q) < 4 \/ q[4] # "]" \/ Ord(q[3]) < Ord(q[1]) THEN NoRange
            ELSE [ok |-> TRUE, not |-> not, range |-> TRUE, lo |-> q[1],
                  hi |-> q[3], chars |-> <<>>, rest |-> SubSeq(q, 5, Len(q))]
       ELSE IF t.rest = <<>> \/ t.data = <<>> THEN NoRange
       ELSE [ok |-> TRUE, not |-> not, range |-> FALSE, lo |-> "", hi |-> "",
             chars |-> t.data, rest |-> Tail(t.rest)]

\* glob.Compile(pattern) returns no error: every "[" that no backslash
\* escapes opens a character class that parses.  (Alternatives are never an
\* error: a "}" or "," outside of them is a literal character.)
RECURSIVE GlobCompiles(_)
GlobCompiles(pattern) ==
    IF pattern = <<>> THEN TRUE
    ELSE IF Head(pattern) = "\\" THEN GlobCompiles(SubSeq(pattern, 3, Len(pattern)))
    ELSE IF Head(pattern) = "["
    THEN /\ fetchRange(Tail(pattern)).ok
         /\ GlobCompiles(fetchRange(Tail(pattern)).rest)
    ELSE GlobCompiles(Tail(pattern))

\* The alternatives whose "{" comes before p, and the pattern after their
\* "}": they are separated by the commas that are in no inner alternatives,
\* in no character class and not escaped.  cur is the alternative read so
\* far, depth the number of open "{".
RECURSIVE Terms(_, _, _)
Terms(p, depth, cur) ==
    IF p = <<>> THEN [alts |-> <<cur>>, rest |-> <<>>]
    ELSE IF Head(p) = "\\"
    THEN Terms(SubSeq(p, 3, Len(p)), depth,
               cur \o SubSeq(p, 1, IF Len(p) = 1 THEN 1 ELSE 2))
    ELSE IF Head(p) = "["
    THEN Terms(fetchRange(Tail(p)).rest, depth,
               cur \o SubSeq(p, 1, Len(p) - Len(fetchRange(Tail(p)).rest)))
    ELSE IF Head(p) = "{" THEN Terms(Tail(p), depth + 1, cur \o <<"{">>)
    ELSE IF Head(p) = "}"
    THEN IF depth = 1 THEN [alts |-> <<cur>>, rest |-> Tail(p)]
         ELSE Terms(Tail(p), depth - 1, cur \o <<"}">>)
    ELSE IF Head(p) = "," /\ depth = 1
    THEN LET t == Terms(Tail(p), 1, <<>>)
         IN [alts |-> <<cur>> \o t.alts, rest |-> t.rest]
    ELSE Terms(Tail(p), depth, cur \o <<Head(p)>>)

\* The character c is in the class r.
InRange(r, c) ==
    IF r.range THEN (Ord(r.lo) <= Ord(c) /\ Ord(c) <= Ord(r.hi)) = ~r.not
    ELSE (\E i \in DOMAIN r.chars : r.chars[i] = c) = ~r.not

\* glob.Compile(pattern).Match(str), for a pattern that compiles.  No
\* separators are given, so "*" and "**" match any run of characters and "?"
\* any one character; a class matches one character; of alternatives any
\* one may match; a backslash makes the next character a literal one.
RECURSIVE GlobMatch(_, _)
GlobMatch(pattern, str) ==
    IF pattern = <<>> THEN str = <<>>
    ELSE IF Head(pattern) = "\\"
    THEN IF Len(pattern) = 1 THEN str = <<>>
         ELSE /\ str # <<>>
              /\ Head(str) = pattern[2]
              /\ GlobMatch(SubSeq(pattern, 3, Len(pattern)), Tail(str))
    ELSE IF Head(pattern) = "*"
    THEN \/ GlobMatch(Tail(pattern), str)
         \/ str # <<>> /\ GlobMatch(pattern, Tail(str))
    ELSE IF Head(pattern) = "?"
    THEN str # <<>> /\ GlobMatch(Tail(pattern), Tail(str))
    ELSE IF Head(pattern) = "["
    THEN /\ str # <<>>
         /\ InRange(fetchRange(Tail(pattern)), Head(str))
         /\ GlobMatch(fetchRange(Tail(pattern)).rest, Tail(str))
    ELSE IF Head(pattern) = "{"
    THEN \E i \in DOMAIN Terms(Tail(pattern), 1, <<>>).alts :
             GlobMatch(Terms(Tail(pattern), 1, <<>>).alts[i]
                           \o Terms(Tail(pattern), 1, <<>>).rest, str)
    ELSE /\ str # <<>>
         /\ Head(str) = Head(pattern)
         /\ GlobMatch(Tail(pattern), Tail(str))

\* The subPath arguments: none, a directory, a suffix, one file, no file,
\* alternatives as the README has them, a class with one character more, and
\* a class that is not closed.
SubPaths ==
    {<<>>,
     vendor \o <<"/","*">>,
     <<"*",".","g","o">>,
     CHANGELOG,
     <<"*","L","*">>,
     nosuch,
     <<"{","*","*","/","*",",","*","}",".","{","g","o",",","j","s","o","n","}">>,
     <<"[","A","-","L","]","?","*","E">>,
     <<"[","a">>}

\* The mutant of getAllFiles: the Files are anchored at the commit HEAD is
\* on when the entries are read, not at the commit of getHeadCommit.
getAllFiles_AnchorAtHEAD(commit) ==
    [n \in {e.Name : e \in Tree(commit.hash)} |->
        FileOf(CHOOSE e \in Tree(commit.hash) : e.Name = n,
               RepositoryHead(repository).hash)]

\* getAllFiles, given the commit of getHeadCommit: commit.Files() and the
\* ForEach, every blob of the commit keyed by its name.
getAllFiles(commit) ==
    [n \in {e.Name : e \in Tree(commit.hash)} |->
        FileOf(CHOOSE e \in Tree(commit.hash) : e.Name = n, commit.hash)]

\* The mutant of SkipFile: symlinks are never skipped.
SkipFile_KeepSymlinks(path, file, subPath, ignoreSymlinks) ==
    subPath # <<>> /\ ~GlobMatch(subPath, path)

\* The loop body of GetAllFiles: the file is skipped when subPath is set and
\* does not match it, or symlinks are ignored and it is one.
SkipFile(path, file, subPath, ignoreSymlinks) ==
    \/ subPath # <<>> /\ ~GlobMatch(subPath, path)
    \/ ignoreSymlinks /\ file.Mode = "symlink"

\* GetAllFiles, given what getHeadCommit returned: the error of getAllFiles,
\* the error of glob.Compile for a subPath that is set, or the files the
\* loop does not skip.  With an error the map is nil.
GetAllFiles(commit, subPath, ignoreSymlinks) ==
    IF ~commit.ok
    THEN [err |-> "unable to read files from repository", files |-> <<>>]
    ELSE IF subPath # <<>> /\ ~GlobCompiles(subPath)
    THEN [err |-> "unable to compile subPath matcher", files |-> <<>>]
    ELSE [err |-> "",
          files |-> [n \in {q \in DOMAIN getAllFiles(commit) :
                                ~SkipFile(q, getAllFiles(commit)[q], subPath,
                                          ignoreSymlinks)}
                        |-> getAllFiles(commit)[n]]]

\* The mutant of Contents: the path is read at the commit HEAD is on now.
Contents_AtHEAD(repo, f) ==
    BlobAt(RepositoryHead(repo).hash, f.Name)

\* File.Contents: the blob the handle holds, read from the object store.
Contents(repo, f) ==
    IF f = NilFile \/ f.headCommit \notin repo.objects THEN ""
    ELSE f.Blob

\* The mutant of getBlame: the error of git.Blame is returned.
getBlame_Propagate(f, blameFails) ==
    IF blameFails THEN [err |-> "blame", Lines |-> <<>>]
    ELSE [err |-> "", Lines |-> BlameLines(f.headCommit, f.Name)]

\* File.getBlame: git.Blame(f.headCommit, f.file.Name); when it fails a
\* warning is printed and a result without lines is returned, with no error.
getBlame(f, blameFails) ==
    IF blameFails THEN [err |-> "", Lines |-> <<>>]
    ELSE [err |-> "", Lines |-> BlameLines(f.headCommit, f.Name)]

\* The mutant of After: a line of the same date replaces the log.
After_OrEqual(t, u) == t >= u

\* time.Time.After
After(t, u) == t > u

\* GitLog{Date: line.Date, Hash: line.Hash, Author: line.Author, Text: line.Text}
GitLogOf(line) ==
    [Date |-> line.Date, Hash |-> line.Hash, Author |-> line.Author,
     Text |-> line.Text]

\* The loop of FileLog: a line whose date is after the date of the log so
\* far replaces it.
RECURSIVE LatestLine(_, _)
LatestLine(lines, fileLog) ==
    IF lines = <<>> THEN fileLog
    ELSE LatestLine(Tail(lines),
                    IF After(Head(lines).Date, fileLog.Date)
                    THEN GitLogOf(Head(lines)) ELSE fileLog)

\* File.FileLog
FileLog(f, blameFails) ==
    LET blame == getBlame(f, blameFails) IN
    IF blame.err # ""
    THEN [err |-> "unable to get blame", log |-> ZeroGitLog]
    ELSE [err |-> "", log |-> LatestLine(blame.Lines, ZeroGitLog)]

\* Commit.Committer.When.  The third commit was amended a day after it was
\* written, so its committer time is later than the date of its author.
CommitterWhen(h) == IF h = Hash3 THEN 4 ELSE DateOf(h)

\* The mutant of LastUpdated: the time of the author is returned.
LastUpdated_AuthorTime(repo) ==
    LET head_ == RepositoryHead(repo) IN
    IF ~head_.ok \/ head_.hash \notin repo.objects
    THEN [err |-> "unable to fetch HEAD commit", when |-> 0]
    ELSE [err |-> "", when |-> DateOf(head_.hash)]

\* LastUpdated: getHeadCommit, then commit.Committer.When.
LastUpdated(repo) ==
    LET head_ == RepositoryHead(repo) IN
    IF ~head_.ok \/ head_.hash \notin repo.objects
    THEN [err |-> "unable to fetch HEAD commit", when |-> 0]
    ELSE [err |-> "", when |-> CommitterWhen(head_.hash)]

\* The directories a blob of this name lies in.
DirsOf(name) ==
    {SubSeq(name, 1, i - 1) : i \in {j \in 1..Len(name) : name[j] = "/"}}

\* Tree.FindEntry(path) on the tree of commit h: the entry of the blob at
\* path, or of the directory that path is; not found otherwise.
FindEntry(h, path) ==
    IF \E e \in Tree(h) : e.Name = path
    THEN [ok |-> TRUE, Mode |-> (CHOOSE e \in Tree(h) : e.Name = path).Mode]
    ELSE IF \E e \in Tree(h) : path \in DirsOf(e.Name)
    THEN [ok |-> TRUE, Mode |-> "dir"]
    ELSE [ok |-> FALSE, Mode |-> ""]

\* isFileMode, given what getHeadCommit returned: the error, or
\* commit.Tree(), tree.FindEntry(path), then entry.Mode == mode.
isFileMode(commit, path, mode) ==
    IF ~commit.ok
    THEN [err |-> "error fetching head commit", is |-> FALSE]
    ELSE IF ~FindEntry(commit.hash, path).ok
    THEN [err |-> "error looking up path", is |-> FALSE]
    ELSE [err |-> "", is |-> FindEntry(commit.hash, path).Mode = mode]

\* The mutant of IsFile: whatever is not a directory is a file.
IsFile_NotDirectory(commit, path) ==
    [err |-> isFileMode(commit, path, "dir").err,
     is |-> /\ isFileMode(commit, path, "dir").err = ""
            /\ ~isFileMode(commit, path, "dir").is]

\* IsFile: isFileMode(path, filemode.Regular)
IsFile(commit, path) == isFileMode(commit, path, "regular")

\* IsDirectory: isFileMode(path, filemode.Dir)
IsDirectory(commit, path) == isFileMode(commit, path, "dir")

\* Goroutine g runs a read query: getHeadCommit takes the read lock.
ReadLock(g) ==
    /\ ~crashed
    /\ gos[g].pc = "idle"
    /\ nops < MaxOps
    /\ RLockable(mutex)
    /\ mutex' = [mutex EXCEPT !.r = @ \cup {g}]
    /\ gos' = [gos EXCEPT ![g] = [IdleGo EXCEPT !.pc = "reading", !.op = "Read"]]
    /\ nops' = nops + 1
    /\ UNCHANGED <<storeVars, seqVars, gitVars>>

\* getHeadCommit of g has resolved HEAD to its commit and unlocks; the query
\* goes on with the commit object it was given.
ReadDone(g) ==
    /\ ~crashed
    /\ gos[g].pc = "reading"
    /\ gos' = [gos EXCEPT
           ![g].pc = "computing",
           ![g].hash = RepositoryHead(repository).hash]
    /\ mutex' = [mutex EXCEPT !.r = @ \ {g}]
    /\ UNCHANGED <<storeVars, seqVars, gitVars, nops>>

\* The read queries of the goroutines: a path that is a file of some commits
\* only, a pattern that does not compile, a directory.  The arguments play no
\* part before the lock-free tail of the query, so they are drawn there.
ReadQueries ==
    {<<"GetFile", CHANGELOG>>, <<"GetAllFiles", <<"[", "a">>>>,
     <<"IsDirectory", vendor>>}

\* The query of g returns what it read, without the lock, from the commit
\* object of getHeadCommit: commit.File / commit.Files / commit.Tree give the
\* entries, and the query returns their error, the error of glob.Compile or
\* its answer.  (commit.Files and commit.Tree fail only for a tree object
\* missing from the storage; clone and fetch store a commit with its tree.)
ReadReturn(g, query) ==
    /\ ~crashed
    /\ gos[g].pc = "computing"
    /\ LET commit == [ok |-> TRUE, hash |-> gos[g].hash]
           err == IF query[1] = "GetFile"
                  THEN GetFile(commit, query[2]).err
                  ELSE IF query[1] = "GetAllFiles"
                  THEN GetAllFiles(commit, query[2], FALSE).err
                  ELSE IsDirectory(commit, query[2]).err
       IN gos' = [gos EXCEPT
              ![g].pc = "idle",
              ![g].result = IF err = ""
                            THEN [NoOutcome EXCEPT !.kind = "ok",
                                                   !.hash = gos[g].hash]
                            ELSE [NoOutcome EXCEPT !.kind = "error",
                                                   !.err = err]]
    /\ UNCHANGED <<storeVars, seqVars, gitVars, mutex, nops>>

\* The query of g reads objects with no lock held while the fetch of another
\* goroutine stores the objects it brings.  The storage of the clone is in
\* memory, Go maps, and the write lock of the fetch does not keep the query
\* out: the runtime may find a map read and written at once, and then the
\* process dies (fatal error: concurrent map read and map write).  No call
\* of the dead process takes another step: each stays where it was.
ReadDuringFetch(g) ==
    /\ ~crashed
    /\ gos[g].pc = "computing"
    /\ \E h \in Gs : gos[h].pc = "fetching"
    /\ FetchOnto(repository, origin).objects # repository.objects
    /\ crashed' = TRUE
    /\ UNCHANGED <<repositories, cloners, callers, calls, cloneCalls,
                   latestAuth, seqVars, gitVars, repoVars>>

\* Someone pushes to the remote.
Push ==
    /\ ~crashed
    /\ origin # PushOnto(origin)
    /\ origin' = PushOnto(origin)
    /\ UNCHANGED <<storeVars, seqVars, repository, repoVars>>

\* The entry of the Repo is Ready: its repository is the normalized clone
\* of the remote.
RepoInit ==
    /\ repositories = MapPut(<<>>, HttpLocator, 1)
    /\ cloners = <<CloseDoneOf(WriteReady(WriteRepo(NewCloner(HttpLocator, NilAuth), 1)))>>
    /\ callers = [c \in Callers |-> IdleCaller]
    /\ crashed = FALSE
    /\ calls = 0
    /\ cloneCalls = [u \in Locators |-> IF u = HttpLocator THEN 1 ELSE 0]
    /\ latestAuth = [u \in Locators |-> ""]
    /\ origin = RepoOrigin
    /\ repository = cleanNewRepo(Clone(RepoOrigin), "none").repo
    /\ mutex = FreeMutex
    /\ gos = [g \in Gs |-> IdleGo]
    /\ nops = 0
    /\ NoSessionInUse

RepoNext ==
    \/ \E g \in Gs, call \in OpCalls : FetchLock(g, call[1], call[2])
    \/ \E g \in Gs, fault \in BOOLEAN : FetchDone(g, fault)
    \/ \E g \in Gs : ParseReference(g)
    \/ \E g \in Gs : CheckoutLock(g)
    \/ \E g \in Gs, fault \in CheckoutFaults : CheckoutDone(g, fault)
    \/ \E g \in Gs : ReadLock(g)
    \/ \E g \in Gs : ReadDone(g)
    \/ \E g \in Gs, query \in ReadQueries : ReadReturn(g, query)
    \/ \E g \in Gs : ReadDuringFetch(g)
    \/ Push

RepoSpec == RepoInit /\ [][RepoNext]_vars

\* ------------------------------------------ the credential of a Repo
\* The references a credential refresh of the Repo's entry is called with.
RefreshRefs == {ref \in Refs : ref.URL = SshLocator}

\* Goroutine g calls Repo.setAuth(auth): it takes the lock.
SetAuthLock(g) ==
    /\ ~crashed
    /\ gos[g].pc = "idle"
    /\ nops < MaxOps
    /\ Lockable(mutex)
    /\ mutex' = [mutex EXCEPT !.w = g]
    /\ gos' = [gos EXCEPT ![g] = [IdleGo EXCEPT !.pc = "setauth", !.op = "setAuth"]]
    /\ nops' = nops + 1
    /\ UNCHANGED <<storeVars, seqVars, gitVars>>

\* setAuth of g writes r.auth = auth, and the deferred Unlock runs.
SetAuthDone(g, auth) ==
    /\ ~crashed
    /\ gos[g].pc = "setauth"
    /\ cloners' = [e \in DOMAIN cloners |-> Reuse(cloners[e], auth)]
    /\ gos' = [gos EXCEPT ![g].pc = "idle",
                          ![g].result = [NoOutcome EXCEPT !.kind = "ok"]]
    /\ mutex' = Unlocked(mutex)
    /\ UNCHANGED <<repositories, callers, crashed, calls, cloneCalls, latestAuth,
                   seqVars, gitVars, nops>>

\* Goroutine g calls GetAsync(ref) with the locator of the Repo's entry:
\* Validate and constructAuthMethod, which may fail; the lookup hits and
\* rc.Repo.auth = auth is written, without the Repo's mutex; the call returns.
GetAsyncHit(g, ref) ==
    /\ ~crashed
    /\ gos[g].pc = "idle"
    /\ nops < MaxOps
    /\ ref.URL \in DOMAIN repositories
    /\ IF EarlyReturn(ref)
       THEN /\ cloners' = cloners
            /\ latestAuth' = latestAuth
       ELSE /\ cloners' = [cloners EXCEPT ![repositories[ref.URL]] =
                              Reuse(@, constructAuthMethod(ref).auth)]
            /\ latestAuth' = [latestAuth EXCEPT ![ref.URL] = constructAuthMethod(ref).auth]
    /\ gos' = [gos EXCEPT ![g] =
           [IdleGo EXCEPT !.op = "GetAsync",
                          !.result = IF EarlyReturn(ref)
                                     THEN [NoOutcome EXCEPT !.kind = "error", !.err = "auth"]
                                     ELSE [NoOutcome EXCEPT !.kind = "ok"]]]
    /\ nops' = nops + 1
    /\ UNCHANGED <<repositories, callers, crashed, calls, cloneCalls,
                   seqVars, gitVars, mutex>>

\* The references of the calls: one that resolves and one that does not.
AuthCalls == {<<"Fetch", <<>>>>, <<"Checkout", master>>, <<"Checkout", nosuch>>}

\* The entry of an ssh locator is Ready, cloned with the key k1.
AuthInit ==
    /\ repositories = MapPut(<<>>, SshLocator, 1)
    /\ cloners = <<CloseDoneOf(WriteReady(WriteRepo(
                     NewCloner(SshLocator,
                         constructAuthMethod([URL |-> SshLocator, PrivateKey |-> "k1",
                                              Secret |-> ""]).auth), 1)))>>
    /\ callers = [c \in Callers |-> IdleCaller]
    /\ crashed = FALSE
    /\ calls = 0
    /\ cloneCalls = [u \in Locators |-> IF u = SshLocator THEN 1 ELSE 0]
    /\ latestAuth = [u \in Locators |-> ""]
    /\ origin = RepoOrigin
    /\ repository = cleanNewRepo(Clone(RepoOrigin), "none").repo
    /\ mutex = FreeMutex
    /\ gos = [g \in Gs |-> IdleGo]
    /\ nops = 0
    /\ NoSessionInUse

\* The calls on the Repo and its credential; the remote is pushed to, and
\* the process may die in a read that overlaps a fetch.
AuthNext ==
    \/ \E g \in Gs, call \in AuthCalls : FetchLock(g, call[1], call[2])
    \/ \E g \in Gs, fault \in BOOLEAN : FetchDone(g, fault)
    \/ \E g \in Gs : ParseReference(g)
    \/ \E g \in Gs : CheckoutLock(g)
    \/ \E g \in Gs, fault \in CheckoutFaults : CheckoutDone(g, fault)
    \/ \E g \in Gs : ReadLock(g)
    \/ \E g \in Gs : ReadDone(g)
    \/ \E g \in Gs, query \in ReadQueries : ReadReturn(g, query)
    \/ \E g \in Gs : ReadDuringFetch(g)
    \/ \E g \in Gs : SetAuthLock(g)
    \/ \E g \in Gs, auth \in {"k1", "k2"} : SetAuthDone(g, auth)
    \/ \E g \in Gs, ref \in RefreshRefs : GetAsyncHit(g, ref)
    \/ Push

AuthSpec == AuthInit /\ [][AuthNext]_vars

\* The mutant of UnableToParseRef: the error does not name the ref.
UnableToParseRef_Anonymous(ref) == [err |-> "parse", errRef |-> <<>>]

\* fmt.Errorf("unable to parse ref %s: %v", ref, err)
UnableToParseRef(ref) == [err |-> "parse", errRef |-> ref]

\* The record of a call that is one lock section: what it was called with,
\* what it returned, and the commit of HEAD before and after it.
Called(op, arg, flag, err, errRef, hash, repo) ==
    [op |-> op, arg |-> arg, flag |-> flag, err |-> err, errRef |-> errRef,
     hash |-> hash, head |-> RepositoryHead(repo).hash,
     before |-> RepositoryHead(repository).hash,
     pushed |-> FALSE, again |-> FALSE, alone |-> TRUE, when |-> 0]

\* The caller keeps nothing of the call it made last.
Forgotten(s) ==
    [s EXCEPT !.last = NoCall, !.files = <<>>, !.content = "",
              !.log = ZeroGitLog, !.logErr = ""]

\* The caller's call returned: it becomes the last call.
Returned(call) ==
    [Forgotten(session) EXCEPT
        !.last = call, !.pc = "idle", !.op = "", !.ref = <<>>, !.flag = FALSE,
        !.hash = ZeroHash, !.before = ZeroHash, !.again = FALSE, !.moved = FALSE, !.alone = TRUE]

\* Another goroutine took a step on the Repo: the caller's last call is no
\* longer the last operation on the Repo, and its call in progress, if any,
\* does not run alone.
Disturbed ==
    [Forgotten(session) EXCEPT
        !.before = ZeroHash, !.again = FALSE, !.moved = FALSE,
        !.alone = session.pc = "idle"]

\* The caller is between two calls.
BetweenCalls == session.pc = "idle"

\* Checkout(ref) is called right after a Checkout(ref) that ran alone and
\* succeeded, with no step of another goroutine in between.
Repeats(ref) ==
    /\ session.last.op = "Checkout"
    /\ session.last.arg = ref
    /\ session.last.err = ""
    /\ session.last.alone

\* The record of the Checkout that returns: whether it repeated the call
\* before it, whether the remote was pushed after the fetch of that call and
\* before its own, and whether it ran alone.
Finished(call) ==
    [call EXCEPT !.before = session.before, !.again = session.again,
                 !.pushed = session.moved, !.alone = session.alone]

\* The caller calls Checkout(ref): CheckoutContext starts with FetchContext,
\* which locks, fetches and unlocks; a failed fetch ends the call, otherwise
\* the call goes on with the lock released.
CheckoutFetch(ref, fetchFault) ==
    /\ BetweenCalls
    /\ ~crashed
    /\ Lockable(mutex)
    /\ repository' = IF fetchFault THEN repository ELSE FetchOnto(repository, origin)
    /\ session' =
           IF AfterFetch("Checkout",
                         FetchFailed(FetchResult(repository, origin, fetchFault)))
              = "idle"
           THEN Returned([Called("Checkout", ref, FALSE, "fetch", <<>>, ZeroHash,
                                 repository)
                          EXCEPT !.again = Repeats(ref),
                                 !.pushed = Repeats(ref) /\ session.pushed])
           ELSE [Forgotten(session) EXCEPT
                    !.pc = "parse", !.ref = ref, !.pushed = FALSE,
                    !.before = RepositoryHead(repository).hash,
                    !.again = Repeats(ref),
                    !.moved = Repeats(ref) /\ session.pushed,
                    !.alone = TRUE]
    /\ UNCHANGED <<storeVars, repoVars, origin, parsed>>

\* The caller's Checkout goes on: parseReference under the read lock, which
\* is released before CheckoutContext looks at the result; an unresolved ref
\* ends the call, otherwise the hash is kept for the checkout.
CheckoutParse ==
    /\ session.pc = "parse"
    /\ ~crashed
    /\ RLockable(mutex)
    /\ session' =
           IF parseReference(repository, session.ref).ok
           THEN [session EXCEPT
                    !.pc = "checkout",
                    !.hash = parseReference(repository, session.ref).hash]
           ELSE Returned(Finished(Called("Checkout", session.ref, FALSE,
                                         UnableToParseRef(session.ref).err,
                                         UnableToParseRef(session.ref).errRef,
                                         ZeroHash, repository)))
    /\ UNCHANGED <<storeVars, repoVars, gitVars, parsed>>

\* What worktree.Checkout of hash leaves, when it succeeds and when it fails.
CheckedOut(repo, hash, checkoutFault) ==
    IF checkoutFault = "none" THEN WorktreeCheckout(repo, hash)
    ELSE WorktreeCheckoutFails(repo, hash, checkoutFault)

\* The caller's Checkout ends: under the lock, taken anew, the forced
\* checkout of the hash parseReference returned.
CheckoutWorktree(checkoutFault) ==
    /\ session.pc = "checkout"
    /\ ~crashed
    /\ Lockable(mutex)
    /\ repository' = CheckedOut(repository, session.hash, checkoutFault)
    /\ session' = Returned(Finished(Called(
                      "Checkout", session.ref, FALSE,
                      IF checkoutFault = "none" THEN "" ELSE "checkout",
                      <<>>, session.hash,
                      CheckedOut(repository, session.hash, checkoutFault))))
    /\ UNCHANGED <<storeVars, repoVars, origin, parsed>>

\* Another goroutine that holds the same Repo calls Fetch().
OtherFetch(fault) ==
    /\ session.other.pc = "idle"
    /\ ~crashed
    /\ Lockable(mutex)
    /\ repository' = IF fault THEN repository ELSE FetchOnto(repository, origin)
    /\ session' = Disturbed
    /\ UNCHANGED <<storeVars, repoVars, origin, parsed>>

\* The refs the other goroutine checks out.
OtherRefs == {master, v1}

\* The other goroutine calls Checkout(ref): the fetch of its CheckoutContext.
OtherCheckoutFetch(ref, fault) ==
    /\ session.other.pc = "idle"
    /\ ~crashed
    /\ Lockable(mutex)
    /\ repository' = IF fault THEN repository ELSE FetchOnto(repository, origin)
    /\ session' =
           [Disturbed EXCEPT
               !.other = IF AfterFetch("Checkout",
                                       FetchFailed(FetchResult(repository, origin,
                                                               fault))) = "idle"
                         THEN IdleOther
                         ELSE [pc |-> "parse", ref |-> ref, hash |-> ZeroHash]]
    /\ UNCHANGED <<storeVars, repoVars, origin, parsed>>

\* The other goroutine's Checkout goes on: parseReference.
OtherCheckoutParse ==
    /\ session.other.pc = "parse"
    /\ ~crashed
    /\ RLockable(mutex)
    /\ session' =
           [Disturbed EXCEPT
               !.other = IF parseReference(repository, session.other.ref).ok
                         THEN [pc |-> "checkout", ref |-> session.other.ref,
                               hash |-> parseReference(repository,
                                                       session.other.ref).hash]
                         ELSE IdleOther]
    /\ UNCHANGED <<storeVars, repoVars, gitVars, parsed>>

\* The other goroutine's Checkout ends: the checkout of the hash it resolved.
OtherCheckoutWorktree(checkoutFault) ==
    /\ session.other.pc = "checkout"
    /\ ~crashed
    /\ Lockable(mutex)
    /\ repository' = CheckedOut(repository, session.other.hash, checkoutFault)
    /\ session' = [Disturbed EXCEPT !.other = IdleOther]
    /\ UNCHANGED <<storeVars, repoVars, origin, parsed>>

\* The caller runs Fetch().
FetchCall(fault) ==
    /\ BetweenCalls
    /\ ~crashed
    /\ Lockable(mutex)
    /\ repository' = IF fault THEN repository ELSE FetchOnto(repository, origin)
    /\ session' = [Returned(Called("Fetch", <<>>, FALSE,
                                   IF FetchFailed(FetchResult(repository, origin,
                                                              fault))
                                   THEN "fetch" ELSE "",
                                   <<>>, ZeroHash, repository))
                   EXCEPT !.pushed = fault /\ session.pushed]
    /\ UNCHANGED <<storeVars, repoVars, origin, parsed>>

\* The query op of the caller goes on with the commit getHeadCommit gave
\* it; the read lock is released.  The caller has let go of the File it
\* held.
Reading(op, arg, flag) ==
    [Forgotten(session) EXCEPT
        !.pc = "read", !.op = op, !.ref = arg, !.flag = flag,
        !.hash = getHeadCommit(repository).hash, !.alone = TRUE,
        !.handle = NilFile]

\* The commit the caller's query holds.
HeldCommit == [ok |-> TRUE, hash |-> session.hash]

\* The record of the query that returns: the commit it read is its hash.
Answered(flag, err) ==
    [Called(session.op, session.ref, flag, err, <<>>, session.hash, repository)
     EXCEPT !.alone = session.alone]

\* The caller calls GetFile(path): getHeadCommit, under the read lock; its
\* error ends the call.
GetFileCall(path) ==
    /\ BetweenCalls
    /\ ~crashed
    /\ RLockable(mutex)
    /\ session' =
           IF getHeadCommit(repository).ok
           THEN Reading("GetFile", path, FALSE)
           ELSE [Returned(Called("GetFile", path, FALSE,
                                 GetFile(getHeadCommit(repository), path).err,
                                 <<>>, ZeroHash, repository))
                 EXCEPT !.handle = NilFile]
    /\ UNCHANGED <<storeVars, repoVars, gitVars, parsed>>

\* GetFile returns: commit.File(path), read with no lock held from the
\* commit of getHeadCommit; the caller keeps the File.
GetFileReturn ==
    /\ session.pc = "read"
    /\ session.op = "GetFile"
    /\ ~crashed
    /\ session' =
           [Returned(Answered(FALSE, GetFile(HeldCommit, session.ref).err))
            EXCEPT !.handle = GetFile(HeldCommit, session.ref).file]
    /\ UNCHANGED <<storeVars, repoVars, gitVars, parsed>>

\* The caller calls GetAllFiles(subPath, ignoreSymlinks): getAllFiles starts
\* with getHeadCommit, under the read lock; its error ends the call.
GetAllFilesCall(subPath, ignoreSymlinks) ==
    /\ BetweenCalls
    /\ ~crashed
    /\ RLockable(mutex)
    /\ session' =
           IF getHeadCommit(repository).ok
           THEN Reading("GetAllFiles", subPath, ignoreSymlinks)
           ELSE Returned(Called("GetAllFiles", subPath, ignoreSymlinks,
                                GetAllFiles(getHeadCommit(repository), subPath,
                                            ignoreSymlinks).err,
                                <<>>, ZeroHash, repository))
    /\ UNCHANGED <<storeVars, repoVars, gitVars, parsed>>

\* GetAllFiles returns: commit.Files(), glob.Compile and the loop, with no
\* lock held, on the commit of getHeadCommit.
GetAllFilesReturn ==
    /\ session.pc = "read"
    /\ session.op = "GetAllFiles"
    /\ ~crashed
    /\ session' =
           [Returned(Answered(session.flag,
                              GetAllFiles(HeldCommit, session.ref,
                                          session.flag).err))
            EXCEPT !.files = GetAllFiles(HeldCommit, session.ref,
                                         session.flag).files]
    /\ UNCHANGED <<storeVars, repoVars, gitVars, parsed>>

\* The caller reads the File it holds, Contents() and FileLog(): neither
\* takes the lock, and the blame walks the commits of the storage.
ReadFileCall ==
    /\ BetweenCalls
    /\ ~crashed
    /\ session.handle # NilFile
    /\ session' = [Forgotten(session) EXCEPT
                       !.pc = "read", !.op = "ReadFile",
                       !.ref = session.handle.Name,
                       !.hash = session.handle.headCommit, !.alone = TRUE]
    /\ UNCHANGED <<storeVars, repoVars, gitVars, parsed>>

\* Contents() and FileLog() of the File have returned.
ReadFileReturn(blameFails) ==
    /\ session.pc = "read"
    /\ session.op = "ReadFile"
    /\ ~crashed
    /\ session' =
           [Returned(Answered(blameFails, ""))
            EXCEPT !.content = Contents(repository, session.handle),
                   !.log = FileLog(session.handle, blameFails).log,
                   !.logErr = FileLog(session.handle, blameFails).err]
    /\ UNCHANGED <<storeVars, repoVars, gitVars, parsed>>

\* The caller calls IsFile(path): isFileMode starts with getHeadCommit,
\* under the read lock; its error ends the call.
IsFileCall(path) ==
    /\ BetweenCalls
    /\ ~crashed
    /\ RLockable(mutex)
    /\ session' =
           IF getHeadCommit(repository).ok
           THEN Reading("IsFile", path, FALSE)
           ELSE Returned(Called("IsFile", path, FALSE,
                                IsFile(getHeadCommit(repository), path).err,
                                <<>>, ZeroHash, repository))
    /\ UNCHANGED <<storeVars, repoVars, gitVars, parsed>>

\* The caller calls IsDirectory(path): as IsFile, with the other mode.
IsDirectoryCall(path) ==
    /\ BetweenCalls
    /\ ~crashed
    /\ RLockable(mutex)
    /\ session' =
           IF getHeadCommit(repository).ok
           THEN Reading("IsDirectory", path, FALSE)
           ELSE Returned(Called("IsDirectory", path, FALSE,
                                IsDirectory(getHeadCommit(repository), path).err,
                                <<>>, ZeroHash, repository))
    /\ UNCHANGED <<storeVars, repoVars, gitVars, parsed>>

\* isFileMode returns, for IsFile or IsDirectory: commit.Tree() and
\* tree.FindEntry(path), with no lock held, on the commit of getHeadCommit.
IsFileModeReturn ==
    /\ session.pc = "read"
    /\ session.op \in {"IsFile", "IsDirectory"}
    /\ ~crashed
    /\ session' =
           IF session.op = "IsFile"
           THEN Returned(Answered(IsFile(HeldCommit, session.ref).is,
                                  IsFile(HeldCommit, session.ref).err))
           ELSE Returned(Answered(IsDirectory(HeldCommit, session.ref).is,
                                  IsDirectory(HeldCommit, session.ref).err))
    /\ UNCHANGED <<storeVars, repoVars, gitVars, parsed>>

\* A fetch of the other goroutine stores the objects it brought while a
\* query of the caller reads objects with no lock held.  The storage of the
\* clone is in memory, Go maps, and the write lock of the fetch does not
\* keep the query out: the runtime may find a map read and written at once,
\* and then the process dies (fatal error: concurrent map read and map
\* write), the caller and the other goroutine with it.  When it does not,
\* the query reads what it asked for, as in the other actions: objects are
\* stored under their hash and never change.
ConcurrentMapReadAndWrite ==
    /\ ~crashed
    /\ session.pc = "read"
    /\ session.other.pc = "idle"
    /\ Lockable(mutex)
    /\ FetchOnto(repository, origin).objects # repository.objects
    /\ crashed' = TRUE
    /\ session' = NoSession
    /\ UNCHANGED <<repositories, cloners, callers, calls, cloneCalls,
                   latestAuth, gitVars, repoVars, parsed>>

\* The caller runs LastUpdated().
LastUpdatedCall ==
    /\ BetweenCalls
    /\ ~crashed
    /\ RLockable(mutex)
    /\ LET r == LastUpdated(repository) IN
       session' = Returned([Called("LastUpdated", <<>>, FALSE, r.err, <<>>, ZeroHash,
                                   repository)
                            EXCEPT !.when = r.when])
    /\ UNCHANGED <<storeVars, repoVars, gitVars, parsed>>

\* Someone pushes to the remote: it has a commit the caller's fetches have
\* not brought.  (What the remote does when the process has died is not
\* followed.)
RemotePush ==
    /\ ~crashed
    /\ origin # PushOnto(origin)
    /\ origin' = PushOnto(origin)
    /\ session' = [session EXCEPT !.pushed = TRUE]
    /\ UNCHANGED <<storeVars, repoVars, repository, parsed>>

\* The entry of the Repo is Ready; the caller and another goroutine hold the
\* Repo and neither is in a call.
FileInit ==
    /\ repositories = MapPut(<<>>, HttpLocator, 1)
    /\ cloners = <<CloseDoneOf(WriteReady(WriteRepo(NewCloner(HttpLocator, NilAuth), 1)))>>
    /\ callers = [c \in Callers |-> IdleCaller]
    /\ crashed = FALSE
    /\ calls = 0
    /\ cloneCalls = [u \in Locators |-> IF u = HttpLocator THEN 1 ELSE 0]
    /\ latestAuth = [u \in Locators |-> ""]
    /\ origin = RepoOrigin
    /\ repository = cleanNewRepo(Clone(RepoOrigin), "none").repo
    /\ mutex = FreeMutex
    /\ gos = [g \in Gs |-> IdleGo]
    /\ nops = 0
    /\ NoSessionInUse

\* The refs the caller checks out before it reads files: the branch and the
\* tag.
FileRefs == {master, v1}

\* The caller checks out, which may fail in the worktree, and reads, each
\* query of files in two steps; the other goroutine fetches, which may fail,
\* and checks out the tag.
FileNext ==
    \/ \E ref \in FileRefs : CheckoutFetch(ref, FALSE)
    \/ CheckoutParse
    \/ \E cf \in CheckoutFaults : CheckoutWorktree(cf)
    \/ \E path \in Paths : GetFileCall(path)
    \/ GetFileReturn
    \/ \E subPath \in SubPaths, ign \in BOOLEAN : GetAllFilesCall(subPath, ign)
    \/ GetAllFilesReturn
    \/ ReadFileCall
    \/ \E blameFails \in BOOLEAN : ReadFileReturn(blameFails)
    \/ \E path \in Paths : IsFileCall(path)
    \/ \E path \in Paths : IsDirectoryCall(path)
    \/ IsFileModeReturn
    \/ LastUpdatedCall
    \/ ConcurrentMapReadAndWrite
    \/ RemotePush
    \/ \E fault \in BOOLEAN : OtherFetch(fault)
    \/ \E fault \in BOOLEAN : OtherCheckoutFetch(v1, fault)
    \/ OtherCheckoutParse
    \/ OtherCheckoutWorktree("none")

FileSpec == FileInit /\ [][FileNext]_vars

\* The caller fetches, checks out any ref and asks for the time of HEAD's
\* commit, the engine may fail, and the other goroutine fetches and checks
\* out.
CheckoutNext ==
    \/ \E ref \in CheckoutRefs, ff \in BOOLEAN : CheckoutFetch(ref, ff)
    \/ CheckoutParse
    \/ \E cf \in CheckoutFaults : CheckoutWorktree(cf)
    \/ \E fault \in BOOLEAN : FetchCall(fault)
    \/ LastUpdatedCall
    \/ RemotePush
    \/ \E fault \in BOOLEAN : OtherFetch(fault)
    \/ \E ref \in OtherRefs, fault \in BOOLEAN : OtherCheckoutFetch(ref, fault)
    \/ OtherCheckoutParse
    \/ \E cf \in CheckoutFaults : OtherCheckoutWorktree(cf)

CheckoutSpec == FileInit /\ [][CheckoutNext]_vars

\* ------------------------------------------------ the loop of FileLog
\* The lines of a blame: each has the date, hash and author of a commit and
\* the text of the line.  Commit times are after the zero time (year 1),
\* which is the date 0 of the zero GitLog.
BlameLineSet ==
    [Date : {1, 2}, Hash : {Hash1, Hash2}, Author : {"ann@host.xz"},
     Text : {"a", "b"}]

BlameInputs == UNION {[1..n -> BlameLineSet] : n \in 0..MaxLines}

\* FileLog runs its loop over the lines of the blame.
FileLogLoop ==
    /\ session.last.op = ""
    /\ session' = [session EXCEPT !.last.op = "FileLog",
                                  !.log = LatestLine(session.lines, ZeroGitLog)]
    /\ UNCHANGED <<storeVars, gitVars, repoVars, parsed>>

\* No store, no Repo; a File whose blame has these lines.
BlameInit ==
    /\ repositories = <<>>
    /\ cloners = <<>>
    /\ callers = [c \in Callers |-> IdleCaller]
    /\ crashed = FALSE
    /\ calls = 0
    /\ cloneCalls = [u \in Locators |-> 0]
    /\ latestAuth = [u \in Locators |-> ""]
    /\ NoRepoInUse
    /\ parsed = NoParsed
    /\ \E lines \in BlameInputs : session = [NoSession EXCEPT !.lines = lines]

BlameNext == FileLogLoop

BlameSpec == BlameInit /\ [][BlameNext]_vars

\* ------------------------------------------- credential derivation
\* The references: any locator, with or without an inline key, naming no
\* secret or a secret in any state.
AuthRefs ==
    [URL : Locators, PrivateKey : {"", "k1", "k2", "garbage"},
     Secret : {"", "lookuperr", "nokey", "k1", "k2", "garbage"}]

\* constructSSHAuthMethod calls rs.client.CoreV1().Secrets(ns).Get(name):
\* the reference is ssh and names a secret.
SecretConsulted(ref) == Validate(ref).urlType = "ssh" /\ ref.Secret # ""

\* What the checks of GetAsync return for the reference.
Checked(ref) ==
    IF ~Validate(ref).ok THEN [NoResult EXCEPT !.kind = "error", !.err = "invalid"]
    ELSE IF ~constructAuthMethod(ref).ok
    THEN [NoResult EXCEPT !.kind = "error", !.err = "auth"]
    ELSE [NoResult EXCEPT !.kind = "auth"]

\* The caller runs the checks GetAsync starts with on its reference:
\* ref.Validate(), then rs.constructAuthMethod(ref).
DeriveCredential ==
    /\ callers[1].pc = "idle"
    /\ callers[1].ref # NoRef
    /\ callers' = [callers EXCEPT
           ![1].pc = "returned",
           ![1].op = "constructAuthMethod",
           ![1].auth = IF EarlyReturn(callers[1].ref) THEN ""
                      ELSE constructAuthMethod(callers[1].ref).auth,
           ![1].result = Checked(callers[1].ref)]
    /\ UNCHANGED <<repositories, cloners, crashed, calls, cloneCalls, latestAuth,
                   gitVars, repoVars, seqVars>>

\* An empty store; a caller holds a reference.
CredInit ==
    /\ repositories = <<>>
    /\ cloners = <<>>
    /\ \E ref \in AuthRefs :
           callers = [c \in Callers |->
                         IF c = 1 THEN [IdleCaller EXCEPT !.ref = ref] ELSE IdleCaller]
    /\ crashed = FALSE
    /\ calls = 0
    /\ cloneCalls = [u \in Locators |-> 0]
    /\ latestAuth = [u \in Locators |-> ""]
    /\ NoRepoInUse
    /\ NoSessionInUse

CredNext == DeriveCredential

CredSpec == CredInit /\ [][CredNext]_vars

\* ------------------------------------------- the reference classifier
\* urlType: the constants of the iota block; 0 is returned with an error.
httpURL == 2
sshURL == 3
fileURL == 4
gitURL == 5
rsyncURL == 6

\* \w
Word ==
    {"a", "b", "c", "d", "e", "f", "g", "h", "i", "j", "k", "l", "m", "n",
     "o", "p", "q", "r", "s", "t", "u", "v", "w", "x", "y", "z", "A", "B",
     "C", "D", "E", "F", "G", "H", "I", "J", "K", "L", "M", "N", "O", "P",
     "Q", "R", "S", "T", "U", "V", "W", "X", "Y", "Z", "0", "1", "2", "3",
     "4", "5", "6", "7", "8", "9", "_"}
\* [\:\w], [\w\.] and [\w\.\:/\-~]
UserClass == Word \cup {":"}
HostClass == Word \cup {"."}
PathClass == Word \cup {".", ":", "/", "-", "~"}

\* The scheme alternatives git|ssh|file|rsync|http(s)? in the order the
\* engine tries them: the greedy (s)? makes it try https before http.
SchemeTokens ==
    <<<<"g", "i", "t">>,
      <<"s", "s", "h">>,
      <<"f", "i", "l", "e">>,
      <<"r", "s", "y", "n", "c">>,
      <<"h", "t", "t", "p", "s">>,
      <<"h", "t", "t", "p">>>>

\* A greedy class+ at i: the position after the longest run of characters
\* of the class that starts at i.
RunEnd(s, i, class) ==
    CHOOSE j \in i..(Len(s) + 1) :
        /\ \A k \in i..(j - 1) : s[k] \in class
        /\ j = Len(s) + 1 \/ s[j] \notin class

\* The run of [\:\w] from i to j - 1 is a fragment \w+[\:\w]+?@ when it
\* starts with a word character, has two characters or more and an @
\* follows it: the position after the @; i when it is no fragment.
FragmentEnd(s, i, j) ==
    IF i <= Len(s) /\ s[i] \in Word /\ j - i >= 2 /\ j <= Len(s) /\ s[j] = "@"
    THEN j + 1
    ELSE i

\* (\w+[\:\w]+?@)? at i: as @ is not in [\:\w], the fragment can only be the
\* whole run of [\:\w] at i.  The position after it, or i when the group
\* matches nothing.
UserInfoEnd(s, i) == FragmentEnd(s, i, RunEnd(s, i, UserClass))

NoSubmatch ==
    [ok |-> FALSE, end |-> 0, g6 |-> <<>>, g7 |-> <<>>, g8 |-> <<>>, g9 |-> <<>>]

\* The first of two ways to match that succeeds.
FirstSubmatch(a, b) == IF a.ok THEN a ELSE b

\* Group 8 is q..u-1 and group 9 the characters from u to e - 1.
UserPath(s, q, u, e) ==
    IF e > u
    THEN [NoSubmatch EXCEPT !.ok = TRUE, !.end = e, !.g8 = SubSeq(s, q, u - 1),
                            !.g9 = SubSeq(s, u, e - 1)]
    ELSE NoSubmatch

\* ([\w\.\:/\-~]+)(\.git)?(/)? at u, after a group 8 that ends before u.  The
\* greedy path takes its whole run, "." and "/" included, so the two
\* optional groups after it always match the empty string, and the match
\* ends with the path.
PathAt(s, q, u) == UserPath(s, q, u, RunEnd(s, u, PathClass))

\* (\w+[\:\w]+?@)?([\w\.\:/\-~]+)(\.git)?(/)? at q: the optional fragment is
\* tried first and given up when no path character follows it.
MatchUserPath(s, q) ==
    FirstSubmatch(PathAt(s, q, UserInfoEnd(s, q)), PathAt(s, q, q))

\* Groups 6 and 7 of a match of what follows them.
WithSeparator(m, g6, g7) ==
    IF m.ok THEN [m EXCEPT !.g6 = g6, !.g7 = g7] ELSE m

\* (:(//)?) and what follows it, at p: the greedy (//)? is tried first.
MatchRest(s, p) ==
    IF p > Len(s) \/ s[p] # ":" THEN NoSubmatch
    ELSE FirstSubmatch(
             IF p + 2 <= Len(s) /\ s[p + 1] = "/" /\ s[p + 2] = "/"
             THEN WithSeparator(MatchUserPath(s, p + 3), <<":", "/", "/">>,
                                <<"/", "/">>)
             ELSE NoSubmatch,
             WithSeparator(MatchUserPath(s, p + 1), <<":">>, <<>>))

\* s has t at position i.
HasAt(s, i, t) ==
    /\ i + Len(t) - 1 <= Len(s)
    /\ SubSeq(s, i, i + Len(t) - 1) = t

\* No match: FindStringSubmatch returns nil.
NoMatches == <<>>

\* The 12 elements FindStringSubmatch returns for a match from i to the end
\* of rest: groups 10 and 11 are empty (see PathAt).
Matches(s, i, g1, g2, g3, g4, g5, rest) ==
    IF ~rest.ok THEN NoMatches
    ELSE [k \in 0..11 |->
            CASE k = 0 -> SubSeq(s, i, rest.end - 1)
              [] k = 1 -> g1
              [] k = 2 -> g2
              [] k = 3 -> g3
              [] k = 4 -> g4
              [] k = 5 -> g5
              [] k = 6 -> rest.g6
              [] k = 7 -> rest.g7
              [] k = 8 -> rest.g8
              [] k = 9 -> rest.g9
              [] OTHER -> <<>>]

\* The first of two ways to match that succeeds.
FirstMatch(a, b) == IF a # NoMatches THEN a ELSE b

\* The match with the scheme alternative t at i.
SchemeAt(s, i, t) ==
    Matches(s, i, t, t, IF t = SchemeTokens[5] THEN <<"s">> ELSE <<>>,
            <<>>, <<>>, MatchRest(s, i + Len(t)))

\* The first of the alternatives ks.
FirstScheme(s, i, ks) ==
    IF ks = {} THEN NoMatches
    ELSE SchemeAt(s, i, SchemeTokens[CHOOSE x \in ks : \A y \in ks : x <= y])

\* (git|ssh|file|rsync|http(s)?) at i, followed by the rest: the first
\* alternative after which the rest matches.
MatchScheme(s, i) ==
    FirstScheme(s, i, {k \in DOMAIN SchemeTokens :
                          /\ HasAt(s, i, SchemeTokens[k])
                          /\ MatchRest(s, i + Len(SchemeTokens[k])).ok})

\* Group 4 is i..h-1 and group 5 is i..u-1.
HostMatches(s, i, u, h) ==
    IF h > u
    THEN Matches(s, i, SubSeq(s, i, h - 1), <<>>, <<>>, SubSeq(s, i, h - 1),
                 SubSeq(s, i, u - 1), MatchRest(s, h))
    ELSE NoMatches

\* [\w\.]+ at u, after a group 5 that ends before u, followed by the rest:
\* the rest starts with ":", which is not in [\w\.], so the host is the
\* whole run of [\w\.].
HostAt(s, i, u) == HostMatches(s, i, u, RunEnd(s, u, HostClass))

\* ((\w+[\:\w]+?@)?[\w\.]+) at i, followed by the rest: the optional
\* fragment is tried first.
MatchHost(s, i) == FirstMatch(HostAt(s, i, UserInfoEnd(s, i)), HostAt(s, i, i))

\* gitRegex at i: the scheme alternative before the host alternative.
MatchAt(s, i) == FirstMatch(MatchScheme(s, i), MatchHost(s, i))

\* The match at the leftmost of the positions starts.
LeftmostMatch(s, starts) ==
    IF starts = {} THEN NoMatches
    ELSE MatchAt(s, CHOOSE i \in starts : \A j \in starts : i <= j)

\* regexp.FindStringSubmatch of gitRegex: the match at the leftmost position
\* that has one.
FindStringSubmatch(s) ==
    LeftmostMatch(s, {i \in 1..Len(s) : MatchAt(s, i) # NoMatches})

\* strings.TrimRight(s, cutset)
RECURSIVE TrimRight(_, _)
TrimRight(s, cutset) ==
    IF s # <<>> /\ (\E i \in DOMAIN cutset : cutset[i] = s[Len(s)])
    THEN TrimRight(SubSeq(s, 1, Len(s) - 1), cutset)
    ELSE s

\* strings.Contains(s, c) for a one-character c
Contains(s, c) == \E i \in DOMAIN s : s[i] = c

\* strings.Split(s, c) for a one-character c
RECURSIVE Split(_, _)
Split(s, c) ==
    IF ~Contains(s, c) THEN <<s>>
    ELSE LET i == CHOOSE x \in DOMAIN s :
                      s[x] = c /\ \A y \in 1..(x - 1) : s[y] # c
         IN <<SubSeq(s, 1, i - 1)>> \o Split(SubSeq(s, i + 1, Len(s)), c)

\* if strings.Contains(userPass, ":") { split[0], split[1] }
SplitUserPass(userPass) ==
    IF Contains(userPass, ":")
    THEN [user |-> Split(userPass, ":")[1], pass |-> Split(userPass, ":")[2]]
    ELSE [user |-> userPass, pass |-> <<>>]

\* The mutant of parseUserPassFromMatches: only group 5 is read.
parseUserPassFromMatches_Group5(matches) ==
    SplitUserPass(IF matches[5] # <<>> THEN TrimRight(matches[5], <<"@">>)
                  ELSE <<>>)

\* parseUserPassFromMatches: group 8 overrides group 5.
parseUserPassFromMatches(matches) ==
    SplitUserPass(IF matches[8] # <<>> THEN TrimRight(matches[8], <<"@">>)
                  ELSE IF matches[5] # <<>> THEN TrimRight(matches[5], <<"@">>)
                  ELSE <<>>)

git == SchemeTokens[1]

\* if user == "" { user = git }
DefaultGit(user) == IF user = <<>> THEN git ELSE user

\* getRepoTypeAndUser: the switch on matches[1] and the statements after it.
SwitchOnPrefix(matches, up) ==
    CASE matches[1] = SchemeTokens[2] ->
             [urlType |-> sshURL, user |-> DefaultGit(up.user), pass |-> up.pass,
              err |-> ""]
      [] matches[1] \in {SchemeTokens[6], SchemeTokens[5]} ->
             [urlType |-> httpURL, user |-> up.user, pass |-> up.pass, err |-> ""]
      [] matches[1] = SchemeTokens[3] ->
             [urlType |-> fileURL, user |-> up.user, pass |-> up.pass, err |-> ""]
      [] matches[1] = SchemeTokens[4] ->
             [urlType |-> rsyncURL, user |-> up.user, pass |-> up.pass, err |-> ""]
      [] matches[1] = git ->
             [urlType |-> gitURL, user |-> DefaultGit(up.user), pass |-> up.pass,
              err |-> ""]
      [] OTHER ->
             IF Contains(matches[0], "@") \/ matches[6] = <<":">>
             THEN [urlType |-> sshURL, user |-> DefaultGit(up.user),
                   pass |-> up.pass, err |-> ""]
             ELSE [urlType |-> 0, user |-> DefaultGit(up.user), pass |-> up.pass,
                   err |-> "repository type"]

\* getRepoTypeAndUser: after r.FindStringSubmatch(url).
TypeAndUserOf(matches) ==
    IF Cardinality(DOMAIN matches) # 12
    THEN [urlType |-> 0, user |-> <<>>, pass |-> <<>>, err |-> "capture groups"]
    ELSE SwitchOnPrefix(matches, parseUserPassFromMatches(matches))

\* getRepoTypeAndUser
getRepoTypeAndUser(url) == TypeAndUserOf(FindStringSubmatch(url))

\* The locators: the rows of the table of TestGetRepoType and the locators
\* of the same shapes, written from their parts.
ftp == <<"f", "t", "p">>
user == <<"u", "s", "e", "r">>
pass == <<"p", "a", "s", "s">>
host_xz == <<"h", "o", "s", "t", ".", "x", "z">>
port == <<":", "p", "o", "r", "t">>
UrlPaths ==
    {<<"/", "p", "a", "t", "h", "/", "t", "o", "/", "r", "e", "p", "o", ".", "g", "i", "t", "/">>,
     <<"/", "~", "u", "s", "e", "r", "/", "p", "a", "t", "h", "/", "t", "o", "/", "r", "e", "p", "o", ".", "g", "i", "t", "/">>,
     <<"/", "~", "/", "p", "a", "t", "h", "/", "t", "o", "/", "r", "e", "p", "o", ".", "g", "i", "t">>}
LocalPaths ==
    {<<"/", "p", "a", "t", "h", "/", "t", "o", "/", "r", "e", "p", "o", ".", "g", "i", "t", "/">>,
     <<"~", "/", "p", "a", "t", "h", "/", "t", "o", "/", "r", "e", "p", "o", ".", "g", "i", "t", "/">>}
ScpPaths ==
    {<<"/", "p", "a", "t", "h", "/", "t", "o", "/", "r", "e", "p", "o", ".", "g", "i", "t", "/">>,
     <<"~", "u", "s", "e", "r", "/", "p", "a", "t", "h", "/", "t", "o", "/", "r", "e", "p", "o", ".", "g", "i", "t", "/">>,
     <<"p", "a", "t", "h", "/", "t", "o", "/", "r", "e", "p", "o", ".", "g", "i", "t">>}
PlainStrings ==
    {<<>>,
     <<"n", "o", "t", "-", "a", "-", "l", "o", "c", "a", "t", "o", "r">>,
     <<"h", "o", "s", "t", ".", "x", "z", "/", "p", "a", "t", "h", "/", "t", "o", "/", "r", "e", "p", "o", ".", "g", "i", "t">>,
     <<"/", "p", "a", "t", "h", "/", "t", "o", "/", "r", "e", "p", "o", ".", "g", "i", "t", "/">>}
Schemes == {SchemeTokens[k] : k \in DOMAIN SchemeTokens} \cup {ftp}
UserInfos ==
    {[user |-> <<>>, pass |-> <<>>], [user |-> user, pass |-> <<>>],
     [user |-> user, pass |-> pass]}

ClassifyInputs ==
    {[NoInput EXCEPT !.kind = "url", !.scheme = sch, !.user = ui.user,
                     !.pass = ui.pass, !.host = host_xz, !.port = pt, !.path = pa] :
        sch \in Schemes, ui \in UserInfos, pt \in {<<>>, port}, pa \in UrlPaths}
    \cup {[NoInput EXCEPT !.kind = "url", !.scheme = SchemeTokens[3], !.path = pa] :
             pa \in LocalPaths}
    \cup {[NoInput EXCEPT !.kind = "scp", !.user = ui.user, !.pass = ui.pass,
                          !.host = host_xz, !.path = pa] :
             ui \in UserInfos, pa \in ScpPaths}
    \cup {[NoInput EXCEPT !.kind = "plain", !.path = pa] : pa \in PlainStrings}

\* The locator written from its parts.
URLOf(in) ==
    LET userinfo == IF in.user = <<>> THEN <<>>
                    ELSE in.user
                         \o (IF in.pass = <<>> THEN <<>> ELSE <<":">> \o in.pass)
                         \o <<"@">>
    IN CASE in.kind = "url" ->
                in.scheme \o <<":", "/", "/">> \o userinfo \o in.host \o in.port
                \o in.path
         [] in.kind = "scp" -> userinfo \o in.host \o <<":">> \o in.path
         [] OTHER -> in.path

\* The locator and what the call returned for it.
Classified(p, r) ==
    [p EXCEPT !.done = TRUE, !.urlType = r.urlType, !.user = r.user,
              !.pass = r.pass, !.err = r.err]

\* getRepoTypeAndUser is called with the locator.
GetRepoTypeAndUserCall ==
    /\ parsed.input # NoInput
    /\ ~parsed.done
    /\ parsed' = Classified(parsed, getRepoTypeAndUser(parsed.url))
    /\ UNCHANGED <<storeVars, gitVars, repoVars, session>>

\* No store, no Repo; a locator is about to be classified.
ClassifyInit ==
    /\ repositories = <<>>
    /\ cloners = <<>>
    /\ callers = [c \in Callers |-> IdleCaller]
    /\ crashed = FALSE
    /\ calls = 0
    /\ cloneCalls = [u \in Locators |-> 0]
    /\ latestAuth = [u \in Locators |-> ""]
    /\ NoRepoInUse
    /\ session = NoSession
    /\ \E in \in ClassifyInputs :
           parsed = [NoParsed EXCEPT !.input = in, !.url = URLOf(in)]

ClassifyNext == GetRepoTypeAndUserCall

ClassifySpec == ClassifyInit /\ [][ClassifyNext]_vars

\* A password with a colon in it, and the locators that carry it.
pa_ss == <<"p", "a", ":", "s", "s">>

ColonInputs ==
    {[NoInput EXCEPT !.kind = "url", !.scheme = sch, !.user = user,
                     !.pass = pa_ss, !.host = host_xz, !.port = pt, !.path = pa] :
        sch \in Schemes, pt \in {<<>>, port}, pa \in UrlPaths}
    \cup {[NoInput EXCEPT !.kind = "scp", !.user = user, !.pass = pa_ss,
                          !.host = host_xz, !.path = pa] : pa \in ScpPaths}

\* No store, no Repo; a locator of either kind is about to be classified.
SplitInit ==
    /\ repositories = <<>>
    /\ cloners = <<>>
    /\ callers = [c \in Callers |-> IdleCaller]
    /\ crashed = FALSE
    /\ calls = 0
    /\ cloneCalls = [u \in Locators |-> 0]
    /\ latestAuth = [u \in Locators |-> ""]
    /\ NoRepoInUse
    /\ session = NoSession
    /\ \E in \in ClassifyInputs \cup ColonInputs :
           parsed = [NoParsed EXCEPT !.input = in, !.url = URLOf(in)]

SplitSpec == SplitInit /\ [][ClassifyNext]_vars

\* ---------------------------------------------------------------- claims
\* The reference fails classification or credential derivation.
FailsChecks(ref) ==
    ~Validate(ref).ok \/ ~constructAuthMethod(ref).ok

\* The worker of the entry has not yet written a terminal state.
InFlight(ent) == ent.pc \in {"cloning", "repo"}

EntriesOf(u) == {e \in Entries : cloners[e].URL = u}

\* In this step caller c enters GetAsync with a reference that passes the
\* checks, for a locator that has an entry in the table.
EntersOnExisting(c) ==
    /\ callers[c].pc = "idle"
    /\ callers'[c].pc # "idle"
    /\ ~FailsChecks(callers'[c].ref)
    /\ callers'[c].ref.URL \in DOMAIN repositories

\* C1: while no clone of a locator has completed, the clone primitive has
\* been invoked at most once for it and all callers that obtained an entry
\* for it obtained the same one.
C1_SingleFlight ==
    \A u \in Locators :
        (\A e \in EntriesOf(u) : cloners[e].pc = "cloning") =>
            /\ cloneCalls[u] <= 1
            /\ \A c1, c2 \in Callers :
                   ( /\ callers[c1].rc # Nil /\ callers[c2].rc # Nil
                     /\ callers[c1].ref.URL = u /\ callers[c2].ref.URL = u )
                   => callers[c1].rc = callers[c2].rc

\* C2: for every locator at most one clone is in flight.
C2_AtMostOneInFlight ==
    \A u \in Locators :
        Cardinality({e \in EntriesOf(u) : InFlight(cloners[e])}) <= 1

\* C3: a Get whose reference passes the checks ends by returning the Repo
\* of a Ready entry with no error, or the stored error of a Failed entry
\* with no Repo; it never ends any other way.
C3_GetReturnsTerminal ==
    \A c \in Callers :
        ( /\ callers[c].op = "Get"
          /\ callers[c].pc \in {"returned", "panicked"}
          /\ ~FailsChecks(callers[c].ref) )
        => LET r == callers[c].result IN
           \/ /\ r.kind = "repo"
              /\ r.repo # Nil
              /\ cloners[r.entry].URL = callers[c].ref.URL
              /\ State(cloners[r.entry]) = "Ready"
              /\ r.repo = cloners[r.entry].Repo
           \/ /\ r.kind = "err"
              /\ r.err # ""
              /\ cloners[r.entry].URL = callers[c].ref.URL
              /\ State(cloners[r.entry]) = "Failed"
              /\ r.err = cloners[r.entry].Error

\* C4: a signal returned by GetAsync is never closed while the entry it was
\* returned with is still Pending.
C4_SignalAfterTerminal ==
    \A c \in Callers :
        (callers[c].rc # Nil /\ SignalClosed(c))
        => State(cloners[callers[c].rc]) # "Pending"

\* C5: once an entry is Ready or Failed, its Ready flag, its Repo and its
\* Error never change again.
C5_TerminalIsFinal ==
    [][\A e \in Entries :
          State(cloners[e]) # "Pending" =>
              /\ cloners'[e].Ready = cloners[e].Ready
              /\ cloners'[e].Repo = cloners[e].Repo
              /\ cloners'[e].Error = cloners[e].Error]_vars

\* C5 witness: an entry has been Ready while a later call reused it and a
\* Fetch ran on its Repo.
C5_Witness ==
    \E e \in Entries :
        /\ State(cloners[e]) = "Ready"
        /\ cloners[e].RepoAuth # cloners[e].CloneAuth
        /\ cloners[e].FetchedWith # ""

\* C6: a Get that returned the error of a Failed entry returned that entry's
\* stored error, the entry is no longer in the table, and no other Get
\* returns the error of the same entry.
C6_FailureEvicted ==
    \A c \in Callers :
        callers[c].result.kind = "err" =>
            LET e == callers[c].result.entry
                u == callers[c].ref.URL
            IN
            /\ callers[c].result.err # ""
            /\ callers[c].result.err = cloners[e].Error
            /\ ~(u \in DOMAIN repositories /\ repositories[u] = e)
            /\ \A d \in Callers \ {c} :
                   callers[d].result.kind = "err" => callers[d].result.entry # e

\* C6 witness: a Get returned the error of a failed clone and a later call
\* registered a new entry for the same locator, which is now in the table.
C6_Witness ==
    \E c \in Callers :
        /\ callers[c].result.kind = "err"
        /\ callers[c].ref.URL \in DOMAIN repositories
        /\ repositories[callers[c].ref.URL] > callers[c].result.entry
        /\ cloneCalls[callers[c].ref.URL] = 2

\* C7: an entry leaves the table only in a step of a Get that holds that
\* same entry and found it Failed.
C7_OnlyFailedRemoved ==
    [][\A u \in DOMAIN repositories :
          (u \notin DOMAIN repositories' \/ repositories'[u] # repositories[u])
          => /\ State(cloners[repositories[u]]) = "Failed"
             /\ \E c \in Callers :
                    /\ callers[c].pc = "select"
                    /\ callers'[c].pc = "returned"
                    /\ callers[c].rc = repositories[u]]_vars

\* C8: a call that enters GetAsync while the table has an entry for its
\* locator obtains that entry, no step taken while the table has an entry
\* for a locator starts a clone of it, and the Repo of an entry is never
\* replaced.
C8_SameEntryNoNewClone ==
    [][/\ \A c \in Callers :
              EntersOnExisting(c) =>
                  callers'[c].rc = repositories[callers'[c].ref.URL]
       /\ \A u \in DOMAIN repositories : cloneCalls'[u] = cloneCalls[u]
       /\ \A e \in Entries :
              cloners[e].Repo # Nil => cloners'[e].Repo = cloners[e].Repo]_vars

\* C9: a call that enters GetAsync on an existing entry does not fail and
\* leaves the derived credential stored with the entry, and a Fetch
\* authenticates with the credential derived by the latest GetAsync for the
\* locator.
C9_CredentialRefreshed ==
    [][/\ \A c \in Callers :
              EntersOnExisting(c) =>
                  /\ callers'[c].result.kind # "panic"
                  /\ cloners'[repositories[callers'[c].ref.URL]].RepoAuth
                         = constructAuthMethod(callers'[c].ref).auth
       /\ \A e \in Entries :
              cloners'[e].FetchedWith # cloners[e].FetchedWith
              => cloners'[e].FetchedWith = latestAuth[cloners[e].URL]]_vars

\* C10: a call whose reference fails classification or credential
\* derivation returns an error in the step it enters, and that step changes
\* neither the table nor any entry and starts no clone.
C10_FailedChecksNoEffect ==
    [][\A c \in Callers :
          ( /\ callers[c].pc = "idle"
            /\ callers'[c].pc # "idle"
            /\ FailsChecks(callers'[c].ref) )
          => /\ callers'[c].pc = "returned"
             /\ callers'[c].result.kind = "error"
             /\ callers'[c].rc = Nil
             /\ repositories' = repositories
             /\ cloners' = cloners
             /\ cloneCalls' = cloneCalls]_vars

\* C10 witness: a call whose credential derivation failed has returned an
\* error while the table holds an entry for its locator.
C10_Witness ==
    \E c \in Callers :
        /\ callers[c].result.kind = "error"
        /\ Validate(callers[c].ref).ok
        /\ callers[c].ref.URL \in DOMAIN repositories

\* C11: the table is only touched under its lock, so a mutation of
\* rs.repositories (the insertion of GetAsync, the delete of Get) never
\* overlaps with the mutation of another caller: no two callers are at a
\* map write at the same time with nothing ordering them.
C11_NoOverlappingTableWrite ==
    \A c \in Callers, d \in Callers :
        c # d => ~(AboutToWriteMap(c) /\ AboutToWriteMap(d))

\* C12: a clone that was started is never abandoned: while the worker of an
\* entry has not written Ready or Failed, the process is alive and the
\* worker can take its next step.
C12_StartedCloneNotAbandoned ==
    \A e \in Entries : InFlight(cloners[e]) => ~crashed

\* C13: a Get call is never lost: it does not panic, and while it waits for
\* the completion signal of its entry the process is alive, so that the
\* signal can be closed and Get can return.
C13_GetNotLost ==
    \A c \in Callers :
        callers[c].op = "Get" =>
            /\ callers[c].pc # "panicked"
            /\ callers[c].pc = "select" => ~crashed

\* The repository is normalized with respect to the clone it was made from:
\* HEAD is a hash reference to the commit HEAD resolved to after the clone,
\* no reference refs/heads/* exists, and the configuration has no branch.
Normalized(repo, cloned) ==
    /\ ~repo.HEAD.symbolic
    /\ repo.HEAD.hash = RepositoryHead(cloned).hash
    /\ Branches(repo) = {}
    /\ (RefsHeads \o master) \notin DOMAIN repo.refs
    /\ repo.branches = {}

\* C14: whenever the entry is Ready, its repository is normalized: HEAD is
\* detached at the commit HEAD pointed to after the clone, no local branch
\* reference exists and the configuration has no branch entries.
C14_ReadyIsNormalized ==
    \A e \in Entries :
        State(cloners[e]) = "Ready" => Normalized(repository, Clone(origin))

\* An entry became Ready for a remote whose HEAD names a branch other than
\* master, at a commit other than that of another branch of the remote.
C14_Witness ==
    \E e \in Entries :
        /\ State(cloners[e]) = "Ready"
        /\ origin # NoOrigin
        /\ origin.HEAD = production
        /\ \E b \in DOMAIN origin.branches :
               origin.branches[b] # origin.branches[origin.HEAD]

\* C15: whatever the name X of the branch the cloned repository is on, when
\* no engine call fails for a reason of its own the normalization deletes the
\* branch configuration X and the reference refs/heads/X and the entry
\* becomes Ready.
C15_AnyBranchNameIsCleaned ==
    \A e \in Entries :
        (/\ origin # NoOrigin
         /\ cloners[e].pc # "cloning"
         /\ cloners[e].Error \notin EngineErrors)
        => /\ State(cloners[e]) = "Ready"
           /\ origin.HEAD \notin repository.branches
           /\ (RefsHeads \o origin.HEAD) \notin DOMAIN repository.refs

\* The engine's fetch step or worktree-checkout step of g is executing.
Mutating(g) == gos[g].pc \in {"fetching", "checkingout"}

\* C16: on one Repo at most one fetch step or worktree-checkout step is
\* executing at any time, whichever goroutines issued them.
C16_FetchCheckoutExclusive ==
    \A g \in Gs, h \in Gs : Mutating(g) /\ Mutating(h) => g = h

\* A fetch step is executing while another goroutine's Checkout has
\* resolved its reference and is about to take the lock for its checkout.
C16_Witness ==
    \E g \in Gs, h \in Gs :
        g # h /\ gos[g].pc = "fetching" /\ gos[h].pc = "checkout"

\* C17: while a read query resolves HEAD (getHeadCommit) no fetch step and
\* no worktree-checkout step is executing on the same Repo; read queries
\* may resolve HEAD at the same time as each other.
C17_ReadsExcludeMutation ==
    \A g \in Gs : gos[g].pc = "reading" => \A h \in Gs : ~Mutating(h)

\* Two read queries are resolving HEAD at the same time.
C17_Witness ==
    \E g \in Gs, h \in Gs :
        g # h /\ gos[g].pc = "reading" /\ gos[h].pc = "reading"

\* C18: a Checkout resolves its reference only after its own fetch
\* succeeded; when its fetch fails the call returns the error at once,
\* without resolving, and the step leaves HEAD and the worktree as they were.
C18_FetchBeforeResolve ==
    [][\A g \in Gs :
          /\ gos'[g].pc \in {"parse", "checkout", "checkingout"} => gos'[g].fetched
          /\ (/\ gos[g].op = "Checkout"
              /\ gos[g].pc = "fetching"
              /\ gos'[g].pc # "fetching"
              /\ ~gos'[g].fetched)
             => /\ gos'[g].pc = "idle"
                /\ gos'[g].result.kind = "error"
                /\ gos'[g].result.err = "fetch"
                /\ repository'.HEAD = repository.HEAD
                /\ repository'.worktree = repository.worktree]_vars

\* A Checkout returned the error of its fetch.
C18_Witness ==
    \E g \in Gs :
        /\ gos[g].op = "Checkout"
        /\ gos[g].pc = "idle"
        /\ gos[g].result.err = "fetch"
        /\ ~gos[g].fetched

\* C19: Checkout resolves ref as it is and takes that hash whenever it
\* resolves; only when it does not resolve, the hash of
\* refs/remotes/origin/<ref> is taken, and with neither the call fails.
\* Checkout(master) finds no literal match (refs/heads/master does not
\* exist), takes the remote-tracking tip of master, and a checkout that
\* succeeds sets HEAD to the hash that was resolved.
C19_LiteralThenRemoteTracking ==
    [][\A g \in Gs :
          /\ (gos[g].pc = "parse" /\ gos'[g].pc # "parse") =>
                LET literal == ResolveRevision(repository, gos[g].ref)
                    tracking == RefsRemotesOrigin \o gos[g].ref
                IN /\ literal.ok =>
                          gos'[g].pc = "checkout" /\ gos'[g].hash = literal.hash
                   /\ (~literal.ok /\ tracking \in DOMAIN repository.refs) =>
                          /\ gos'[g].pc = "checkout"
                          /\ gos'[g].hash = repository.refs[tracking]
                   /\ (~literal.ok /\ tracking \notin DOMAIN repository.refs) =>
                          gos'[g].pc = "idle" /\ gos'[g].result.err = "parse"
                   /\ gos[g].ref = master =>
                          /\ (RefsHeads \o master) \notin DOMAIN repository.refs
                          /\ gos'[g].pc = "checkout"
                          /\ gos'[g].hash = repository.refs[RefsRemotesOrigin \o master]
          /\ (gos[g].pc = "checkingout" /\ gos'[g].result.kind = "ok") =>
                repository'.HEAD = DetachedHEAD(gos[g].hash)]_vars

\* Checkout(v1) ended on the commit of the tag v1 although the remote-tracking
\* branch v1 is at another commit, and a Checkout(master) ended on the
\* remote-tracking tip of master.
C19_Witness ==
    \E g \in Gs, h \in Gs :
        /\ gos[g].op = "Checkout" /\ gos[g].ref = v1
        /\ gos[g].result.kind = "ok"
        /\ gos[g].result.hash = repository.refs[RefsTags \o v1]
        /\ repository.refs[RefsRemotesOrigin \o v1] # gos[g].result.hash
        /\ gos[h].op = "Checkout" /\ gos[h].ref = master
        /\ gos[h].result.kind = "ok"
        /\ gos[h].result.hash = repository.refs[RefsRemotesOrigin \o master]

\* C20: whatever Fetch and Checkout calls have run or are running on the
\* Repo, HEAD is a hash reference and no reference refs/heads/* exists.
C20_AlwaysDetached ==
    /\ ~repository.HEAD.symbolic
    /\ Branches(repository) = {}

\* A Checkout has succeeded, another call has failed in the worktree
\* checkout, and a fetch has brought the pushed commit.
C20_Witness ==
    \E g \in Gs, h \in Gs :
        /\ gos[g].op = "Checkout" /\ gos[g].result.kind = "ok"
        /\ gos[h].op = "Checkout" /\ gos[h].result.err = "checkout"
        /\ repository.refs[RefsRemotesOrigin \o master] = Hash3

\* The errors of a Checkout that come from the engine, not from the ref.
EngineFaultErrors == {"fetch", "checkout"}

\* C21 as stated: a Checkout(r) that directly follows a successful
\* Checkout(r), with no step of another goroutine on the Repo since the
\* first call began, starts with HEAD where the first call left it, succeeds
\* and leaves HEAD at the commit r resolved to, which is that commit.
C21_CheckoutTwiceSameHead ==
    [][/\ \A ref \in CheckoutRefs :
             (Repeats(ref) /\ \E ff \in BOOLEAN : CheckoutFetch(ref, ff)) =>
                 /\ RepositoryHead(repository).hash = session.last.head
                 /\ session'.pc = "parse" => session'.before = session.last.head
       /\ (/\ session'.last.op = "Checkout"
           /\ session'.last.again
           /\ session'.last.alone)
          => /\ session'.last.err = ""
             /\ session'.last.head = session'.last.hash
             /\ session'.last.head = session'.last.before]_vars

\* C21 amended: when the remote has not been pushed to between the fetch of
\* the first call and the fetch of the second, the second call starts with
\* HEAD where the first call left it and leaves HEAD there, whether it
\* succeeds or its fetch or worktree update fails; it fails for no other
\* reason, and when it succeeds HEAD is at the commit r resolved to.
C21_CheckoutTwiceSameHeadUnlessPushed ==
    [][/\ \A ref \in CheckoutRefs :
             (Repeats(ref) /\ \E ff \in BOOLEAN : CheckoutFetch(ref, ff)) =>
                 /\ RepositoryHead(repository).hash = session.last.head
                 /\ session'.pc = "parse" => session'.before = session.last.head
       /\ (/\ session'.last.op = "Checkout"
           /\ session'.last.again
           /\ session'.last.alone
           /\ ~session'.last.pushed)
          => /\ session'.last.head = session'.last.before
             /\ session'.last.err \in {""} \cup EngineFaultErrors
             /\ session'.last.err = "" =>
                    session'.last.head = session'.last.hash]_vars

\* The second call failed in its worktree update, with
\* no push since the fetch of the first call and no step of another
\* goroutine, and HEAD is where the first call left it.
FailedAgainAtSameHead ==
    /\ session.last.op = "Checkout"
    /\ session.last.again
    /\ session.last.alone
    /\ ~session.last.pushed
    /\ session.last.err = "checkout"
    /\ repository.HEAD.hash = session.last.before

\* Checkout(master) has been called twice in a row with no push and no step
\* of another goroutine since the first call began, and both calls
\* succeeded.
C21_Witness ==
    /\ session.last.op = "Checkout"
    /\ session.last.arg = master
    /\ session.last.again
    /\ session.last.alone
    /\ ~session.last.pushed
    /\ session.last.err = ""
    /\ session.last.before = session.last.hash
    /\ repository.HEAD.hash = session.last.hash

\* The blobs GetAllFiles is to return for the HEAD commit h.
MatchingBlobs(h, subPath, ignoreSymlinks) ==
    {e \in Tree(h) :
        /\ subPath = <<>> \/ GlobMatch(subPath, e.Name)
        /\ ignoreSymlinks => e.Mode # "symlink"}

\* The commit a query of the caller holds is the one HEAD names, as long as
\* no other goroutine has taken a step since getHeadCommit returned it.
HeldCommitWasHead ==
    (session.pc = "read" /\ session.op # "ReadFile" /\ session.alone) =>
        session.hash = RepositoryHead(repository).hash

\* C22: GetAllFiles returns exactly the blobs of the commit that HEAD names
\* when the call resolves it (the hash of the call's record, which is still
\* HEAD at the return of a call no other goroutine stepped into) that match
\* subPath as a glob (all when it is empty) and, with ignoreSymlinks, are no
\* symlinks, keyed by their path; a subPath that is no glob fails the call;
\* the result with ignoreSymlinks is contained in the result without, and
\* the result for a subPath in that for the empty one.
C22_GetAllFilesExact ==
    LET h == session.last.hash IN
    /\ session.last.op = "GetAllFiles" =>
          /\ session.last.err = "" <=>
                 (session.last.arg = <<>> \/ GlobCompiles(session.last.arg))
          /\ session.last.err # "" => session.files = <<>>
          /\ session.last.err = "" =>
                 /\ DOMAIN session.files =
                        {e.Name : e \in MatchingBlobs(h, session.last.arg,
                                                      session.last.flag)}
                 /\ \A n \in DOMAIN session.files :
                        /\ session.files[n].Name = n
                        /\ session.files[n].headCommit = h
                        /\ session.files[n].Blob = BlobAt(h, n)
          /\ session.last.alone => h = session.last.head
    /\ session.op = "GetAllFiles" =>
          /\ HeldCommitWasHead
          /\ DOMAIN GetAllFiles(HeldCommit, session.ref, TRUE).files
                 \subseteq DOMAIN GetAllFiles(HeldCommit, session.ref, FALSE).files
          /\ DOMAIN GetAllFiles(HeldCommit, session.ref, session.flag).files
                 \subseteq DOMAIN GetAllFiles(HeldCommit, <<>>, session.flag).files

\* GetAllFiles with alternatives and ignoreSymlinks returned the one file
\* of a commit that matches, which lies in a directory, while another
\* goroutine's Checkout had moved HEAD to a commit without it.
C22_Witness ==
    /\ session.last.op = "GetAllFiles"
    /\ Len(session.last.arg) > 0
    /\ Head(session.last.arg) = "{"
    /\ session.last.flag
    /\ \E e \in Tree(session.last.hash) : e.Mode = "symlink"
    /\ DOMAIN session.files = {vendor_foo}
    /\ session.last.head = Hash1

\* C23: GetFile(path) succeeds exactly when path is a file of the commit
\* HEAD names when the call resolves it (the hash of the call's record,
\* still HEAD at the return of a call no other goroutine stepped into);
\* otherwise it returns an error and a nil File; the File it returns has the
\* content of the path at that commit.
C23_GetFileAtHead ==
    /\ session.last.op = "GetFile" =>
           LET h == session.last.hash IN
           /\ session.last.err = "" <=> \E e \in Tree(h) : e.Name = session.last.arg
           /\ session.last.err # "" => session.handle = NilFile
           /\ session.last.err = "" =>
                  /\ session.handle.Name = session.last.arg
                  /\ Contents(repository, session.handle)
                         = BlobAt(h, session.last.arg)
           /\ session.last.alone => h = session.last.head
    /\ session.op = "GetFile" => HeldCommitWasHead

\* After a Checkout to the first commit GetFile(CHANGELOG) failed.
C23_Witness ==
    /\ session.last.op = "GetFile"
    /\ session.last.arg = CHANGELOG
    /\ session.last.err # ""
    /\ session.handle = NilFile
    /\ session.last.alone
    /\ session.last.hash = Hash1
    /\ session.last.head = Hash1

\* The commit, up to h, that last changed the path.
LastChange(h, path) ==
    CHOOSE c \in Ancestors(h) :
        /\ BlobAt(c, path) = BlobAt(h, path)
        /\ BlobAt(Parent(c), path) # BlobAt(c, path)

\* C24: whatever Checkout moved HEAD to since the File was obtained, its
\* Contents and FileLog are those of the path at the commit the File was
\* resolved against.
C24_FileIsAnchored ==
    (session.last.op = "ReadFile" /\ session.handle # NilFile) =>
        /\ session.content = BlobAt(session.handle.headCommit, session.handle.Name)
        /\ ~session.last.flag =>
               /\ session.log.Hash =
                      LastChange(session.handle.headCommit, session.handle.Name)
               /\ session.log.Date = DateOf(session.log.Hash)

\* A File was read after HEAD moved to a commit where the path has another
\* content.
C24_Witness ==
    /\ session.last.op = "ReadFile"
    /\ ~session.last.flag
    /\ session.handle # NilFile
    /\ repository.HEAD.hash # session.handle.headCommit
    /\ BlobAt(repository.HEAD.hash, session.handle.Name) # session.content

\* C25: FileLog returns no error; when the blame fails it returns the zero
\* GitLog and a nil error, and the content of the File is read all the same.
C25_FileLogNeverFails ==
    session.last.op = "ReadFile" =>
        /\ session.logErr = ""
        /\ session.last.flag =>
               /\ session.log = ZeroGitLog
               /\ session.content = session.handle.Blob

\* The blame of a File failed and its content was read.
C25_Witness ==
    /\ session.last.op = "ReadFile"
    /\ session.last.flag
    /\ session.log = ZeroGitLog
    /\ session.content # ""

\* C30: a Checkout whose ref resolves neither literally nor as
\* refs/remotes/origin/<ref> returns an error that names the ref; neither
\* the fetch nor the resolution of the call moves HEAD or the worktree, and
\* when no other goroutine took a step on the Repo during the call, HEAD is
\* after the call where it was before.
C30_UnresolvedRefLeavesHead ==
    [][/\ CheckoutParse =>
             /\ (/\ ~ResolveRevision(repository, session.ref).ok
                 /\ ~ResolveRevision(repository,
                                     RefsRemotesOrigin \o session.ref).ok)
                => /\ session'.pc = "idle"
                   /\ session'.last.op = "Checkout"
                   /\ session'.last.err = "parse"
             /\ session'.pc = "idle" =>
                   /\ session'.last.err = "parse"
                   /\ session'.last.arg = session.ref
                   /\ session'.last.errRef = session.ref
                   /\ repository'.HEAD = repository.HEAD
                   /\ repository'.worktree = repository.worktree
                   /\ session'.last.alone =>
                          session'.last.head = session'.last.before
       /\ (\E ref \in CheckoutRefs, ff \in BOOLEAN : CheckoutFetch(ref, ff)) =>
             /\ repository'.HEAD = repository.HEAD
             /\ repository'.worktree = repository.worktree]_vars

\* Checkout(nosuch) failed in the resolution, after a Checkout that had
\* moved HEAD.
C30_Witness ==
    /\ session.last.op = "Checkout"
    /\ session.last.arg = nosuch
    /\ session.last.err = "parse"
    /\ session.last.errRef = nosuch
    /\ session.last.alone
    /\ session.last.before = Hash1
    /\ session.last.head = Hash1
    /\ repository.HEAD.hash = Hash1

\* Goroutine g is inside a Checkout, between the start of its fetch step and
\* the completion of its worktree update.
InCheckout(g) ==
    /\ gos[g].op = "Checkout"
    /\ gos[g].pc \in {"fetching", "parse", "checkout", "checkingout"}

\* C29: while a goroutine is inside a Checkout, no fetch step and no
\* worktree-checkout step of another goroutine is executing on the Repo.
C29_CheckoutExclusiveForWholeCall ==
    \A g \in Gs, h \in Gs : (g # h /\ InCheckout(g)) => ~Mutating(h)

\* The errors cleanNewRepo can return for the clone of the remote.
NormalizationErrors ==
    {cleanNewRepo(Clone(origin), fault).err : fault \in CleanFaults} \ {""}

\* C28: once the worker has finished after a successful clone, if the
\* normalization returned an error or left the repository not normalized,
\* the entry is Failed with the error of the normalization, Ready is false
\* and the entry holds no Repo.
C28_FailedNormalizationNotExposed ==
    \A e \in Entries :
        (/\ cloners[e].pc # "cloning"
         /\ repository # NoRepository
         /\ \/ cloners[e].Error # ""
            \/ ~Normalized(repository, Clone(origin)))
        => /\ State(cloners[e]) = "Failed"
           /\ cloners[e].Error \in NormalizationErrors
           /\ ~cloners[e].Ready
           /\ cloners[e].Repo = Nil

\* The normalization failed after it had detached HEAD: the repository
\* still has a local branch, and the worker has closed done.
C28_Witness ==
    \E e \in Entries :
        /\ cloners[e].pc = "closed"
        /\ cloners[e].Error # ""
        /\ repository # NoRepository
        /\ ~repository.HEAD.symbolic
        /\ Branches(repository) # {}

\* C27: in every state of every entry, Ready implies that the entry holds a
\* Repo and no error, and an error implies that Ready is false and that the
\* entry holds no Repo; so whenever the fields of an entry are read, Ready
\* is not seen together with a nil Repo or with an error.
C27_ReadyFailedConsistent ==
    \A e \in Entries :
        /\ cloners[e].Ready => (cloners[e].Repo # Nil /\ cloners[e].Error = "")
        /\ cloners[e].Error # "" => (~cloners[e].Ready /\ cloners[e].Repo = Nil)

\* One entry is Ready and another is Failed, while a caller is still inside
\* a call.
C27_Witness ==
    \E e \in Entries, f \in Entries :
        /\ State(cloners[e]) = "Ready"
        /\ cloners[e].Repo # Nil
        /\ State(cloners[f]) = "Failed"
        /\ \E c \in Callers : callers[c].pc \notin {"idle", "returned", "panicked"}

\* The transport the classification table lists for a locator written from
\* the parts in: by its scheme; ssh for the scp-style host:path and for any
\* other locator with a user@ fragment; 0 when the table lists a failure.
ListedType(in) ==
    CASE in.kind = "plain" -> 0
      [] in.kind = "scp" -> sshURL
      [] in.scheme = SchemeTokens[2] -> sshURL
      [] in.scheme = SchemeTokens[1] -> gitURL
      [] in.scheme \in {SchemeTokens[5], SchemeTokens[6]} -> httpURL
      [] in.scheme = SchemeTokens[3] -> fileURL
      [] in.scheme = SchemeTokens[4] -> rsyncURL
      [] OTHER -> IF in.user # <<>> THEN sshURL ELSE 0

\* The user the table lists: the one of the locator, git for the ssh and
\* git transports when the locator has none, the empty string otherwise.
ListedUser(in) ==
    IF in.user # <<>> THEN in.user
    ELSE IF ListedType(in) \in {sshURL, gitURL} THEN git
    ELSE <<>>

\* C26: for every locator of the table, getRepoTypeAndUser returns the
\* listed transport, user and password and no error; for a locator of none
\* of the shapes it returns an error.
C26_ClassificationTable ==
    parsed.done =>
        IF ListedType(parsed.input) = 0
        THEN parsed.err # ""
        ELSE /\ parsed.err = ""
             /\ parsed.urlType = ListedType(parsed.input)
             /\ parsed.user = ListedUser(parsed.input)
             /\ parsed.pass = parsed.input.pass

\* user:pass@host.xz:path/to/repo.git has been classified as ssh with the
\* user and the password of the locator.
C26_Witness ==
    /\ parsed.done
    /\ parsed.input.kind = "scp"
    /\ parsed.url = user \o <<":">> \o pass \o <<"@">> \o host_xz \o <<":">>
                    \o parsed.input.path
    /\ parsed.urlType = sshURL
    /\ parsed.user = user
    /\ parsed.pass = pass

\* C31: a Fetch, whether the engine's fetch updated references, found
\* nothing new or failed, leaves HEAD, the commit it names and the worktree
\* as they were before the call.
C31_FetchKeepsHead ==
    [][(\E fault \in BOOLEAN : FetchCall(fault)) =>
          /\ repository'.HEAD = repository.HEAD
          /\ RepositoryHead(repository').hash = RepositoryHead(repository).hash
          /\ repository'.worktree = repository.worktree]_vars

\* A Fetch succeeded and brought the pushed commit of master, and HEAD is
\* still on the commit of an earlier Checkout.
C31_Witness ==
    /\ session.last.op = "Fetch"
    /\ session.last.err = ""
    /\ repository.refs[RefsRemotesOrigin \o master] = Hash3
    /\ session.last.head = Hash1
    /\ repository.HEAD.hash = Hash1

\* The queries that read the commit of HEAD in two steps.
HeadQueries == {"GetFile", "GetAllFiles", "IsFile", "IsDirectory"}

\* C32: a read query (GetFile, GetAllFiles, IsFile, IsDirectory,
\* LastUpdated) takes its commit from HEAD once, at a moment of the call, and
\* whatever Checkouts and fetches run before it returns, everything it
\* returns is read from that one commit: the Files are entries of its tree
\* with its blobs and are anchored at it, an error is for a path its tree
\* has not, the answer is the mode of its entry, the time is its
\* committer's.
C32_ReadFromOneHeadCommit ==
    [][/\ (session.pc = "idle" /\ session'.pc = "read"
                /\ session'.op \in HeadQueries) =>
              session'.hash = RepositoryHead(repository).hash
       /\ (session.pc = "read" /\ session'.pc = "read") =>
              /\ session'.hash = session.hash
              /\ session'.op = session.op
              /\ session'.ref = session.ref
       /\ (/\ session.pc = "read"
           /\ session.op \in HeadQueries
           /\ session'.pc = "idle"
           /\ ~crashed') =>
              LET h == session.hash
                  path == session.ref
                  call == session'.last
              IN /\ call.op = session.op
                 /\ call.arg = path
                 /\ call.hash = h
                 /\ call.op = "GetFile" =>
                        IF call.err = ""
                        THEN /\ session'.handle.Name = path
                             /\ session'.handle.headCommit = h
                             /\ session'.handle.Blob = BlobAt(h, path)
                             /\ \E e \in Tree(h) :
                                    /\ e.Name = path
                                    /\ e.Mode = session'.handle.Mode
                        ELSE /\ session'.handle = NilFile
                             /\ \A e \in Tree(h) : e.Name # path
                 /\ call.op = "GetAllFiles" =>
                        \A n \in DOMAIN session'.files :
                            /\ session'.files[n].Name = n
                            /\ session'.files[n].headCommit = h
                            /\ session'.files[n].Blob = BlobAt(h, n)
                            /\ \E e \in Tree(h) :
                                   /\ e.Name = n
                                   /\ e.Mode = session'.files[n].Mode
                 /\ call.op = "IsFile" =>
                        IF call.err = ""
                        THEN call.flag <=> \E e \in Tree(h) :
                                              e.Name = path /\ e.Mode = "regular"
                        ELSE \A e \in Tree(h) :
                                 e.Name # path /\ path \notin DirsOf(e.Name)
                 /\ call.op = "IsDirectory" =>
                        IF call.err = ""
                        THEN call.flag <=> \E e \in Tree(h) : path \in DirsOf(e.Name)
                        ELSE \A e \in Tree(h) :
                                 e.Name # path /\ path \notin DirsOf(e.Name)
       /\ LastUpdatedCall =>
              /\ session'.last.err = ""
              /\ session'.last.when = CommitterWhen(RepositoryHead(repository).hash)
      ]_vars

\* GetFile has returned the File of a path from the commit it took from
\* HEAD, after a Checkout of the other goroutine moved HEAD to a commit
\* where the path has other content.
C32_Witness ==
    /\ session.pc = "idle"
    /\ session.last.op = "GetFile"
    /\ session.last.err = ""
    /\ ~session.last.alone
    /\ session.last.head # session.last.hash
    /\ session.handle.headCommit = session.last.hash
    /\ session.handle.Blob # BlobAt(session.last.head, session.last.arg)

\* The point of its call at which a goroutine holds the write lock, the read
\* lock.
HoldsWrite(g) == gos[g].pc \in {"fetching", "checkingout", "setauth"}
HoldsRead(g) == gos[g].pc = "reading"

\* A call that has started takes its next step.
Continue ==
    \/ \E g \in Gs, fault \in BOOLEAN : FetchDone(g, fault)
    \/ \E g \in Gs : ParseReference(g)
    \/ \E g \in Gs : CheckoutLock(g)
    \/ \E g \in Gs, fault \in CheckoutFaults : CheckoutDone(g, fault)
    \/ \E g \in Gs : ReadDone(g)
    \/ \E g \in Gs, query \in ReadQueries : ReadReturn(g, query)
    \/ \E g \in Gs, auth \in {"k1", "k2"} : SetAuthDone(g, auth)

\* C33: a goroutine holds the lock of the Repo only inside the locked section
\* of its call, never both as writer and as reader, and not after the call
\* returned, with or without an error; and as long as the process lives and
\* some call of Fetch, Checkout, setAuth, GetAsync or a read query has not
\* returned, some call can take its next step.  (A process that died in a
\* read that overlaps a fetch takes no step: its calls wait for nothing.)
C33_LocksReleasedNoDeadlock ==
    /\ \A g \in Gs : (mutex.w = g) <=> HoldsWrite(g)
    /\ \A r \in mutex.r : r \in Gs
    /\ \A g \in Gs : (g \in mutex.r) <=> HoldsRead(g)
    /\ \A g \in Gs : ~(mutex.w = g /\ g \in mutex.r)
    /\ mutex.w # Nil => mutex.r = {}
    /\ (~crashed /\ \E g \in Gs : gos[g].pc # "idle") => ENABLED Continue

\* The process died in the read of one goroutine while the fetch of another
\* held the lock.
DiedInsideFetch ==
    /\ crashed
    /\ \E g \in Gs, h \in Gs :
           /\ gos[g].pc = "computing"
           /\ gos[h].pc = "fetching"
           /\ mutex.w = h

\* A Checkout whose fetch and parseReference are done waits for the lock
\* that a setAuth holds, and no further call can start.
C33_Witness ==
    \E g \in Gs, h \in Gs :
        /\ gos[g].pc = "checkout"
        /\ gos[h].pc = "setauth"
        /\ mutex.w = h
        /\ nops = MaxOps

\* C34: the credential of the Repo changes only in a step of the goroutine
\* that holds the write lock, hence never while a fetch, which holds the write
\* lock and authenticates with the credential, is executing.
C34_CredentialWrittenUnderLock ==
    [][\A e \in DOMAIN cloners :
          cloners'[e].RepoAuth # cloners[e].RepoAuth =>
              /\ mutex.w \in Gs
              /\ gos'[mutex.w] # gos[mutex.w]
              /\ \A g \in Gs : gos[g].pc # "fetching"]_vars

\* The tree of commit h has a blob below the directory path.
HasBlobBelow(h, path) ==
    \E e \in Tree(h) : Len(e.Name) > Len(path) /\ HasPrefix(e.Name, path \o <<"/">>)

\* What IsFile and IsDirectory have to answer for path at commit h.
ModeAnswer(h, path, mode) ==
    IF \E e \in Tree(h) : e.Name = path
    THEN [err |-> FALSE, is |-> \E e \in Tree(h) : e.Name = path /\ e.Mode = mode]
    ELSE IF HasBlobBelow(h, path)
    THEN [err |-> FALSE, is |-> mode = "dir"]
    ELSE [err |-> TRUE, is |-> FALSE]

\* C35: IsFile(path) and IsDirectory(path) fail when the tree of the commit
\* HEAD names when the call resolves it (the hash of the call's record, still
\* HEAD at the return of a call no other goroutine stepped into) has no entry
\* at path; otherwise IsFile answers whether the entry is a regular file and
\* IsDirectory whether it is a directory, so that for no path both answer
\* true, and for a symlink both answer false.
C35_IsFileIsDirectory ==
    [][/\ session'.last.op = "IsFile" =>
             LET a == ModeAnswer(session'.last.hash,
                                 session'.last.arg, "regular")
             IN /\ (session'.last.err # "") = a.err
                /\ session'.last.flag = a.is
                /\ session'.last.alone => session'.last.hash = session'.last.head
       /\ session'.last.op = "IsDirectory" =>
             LET a == ModeAnswer(session'.last.hash,
                                 session'.last.arg, "dir")
             IN /\ (session'.last.err # "") = a.err
                /\ session'.last.flag = a.is
                /\ session'.last.alone => session'.last.hash = session'.last.head
       /\ ((\E path \in Paths : IsFileCall(path) \/ IsDirectoryCall(path))
           /\ session'.pc = "read")
          => session'.hash = RepositoryHead(repository).hash
       /\ \A path \in Paths :
             /\ ~(/\ IsFile(getHeadCommit(repository), path).is
                  /\ IsDirectory(getHeadCommit(repository), path).is)
             /\ (\E e \in Tree(RepositoryHead(repository).hash) :
                     e.Name = path /\ e.Mode = "symlink")
                => /\ IsFile(getHeadCommit(repository), path)
                        = [err |-> "", is |-> FALSE]
                   /\ IsDirectory(getHeadCommit(repository), path)
                        = [err |-> "", is |-> FALSE]]_vars

\* IsFile answered false, without an error, for the symlink.
C35_Witness ==
    /\ session.last.op = "IsFile"
    /\ session.last.arg = link
    /\ session.last.err = ""
    /\ ~session.last.flag

\* C36: LastUpdated returns the committer time of the commit HEAD is on at
\* the call; when a Checkout returns with success, that is the committer
\* time of the commit the reference resolved to; and a step that leaves HEAD
\* where it is leaves the answer of LastUpdated as it is.
C36_LastUpdatedIsCommitterTimeOfHead ==
    [][/\ LastUpdatedCall =>
             /\ session'.last.err = ""
             /\ session'.last.when = CommitterWhen(RepositoryHead(repository).hash)
       /\ (/\ \E cf \in CheckoutFaults : CheckoutWorktree(cf)
           /\ session'.last.err = "") =>
             LastUpdated(repository') =
                 [err |-> "", when |-> CommitterWhen(session'.last.hash)]
       /\ RepositoryHead(repository').hash = RepositoryHead(repository).hash =>
             LastUpdated(repository') = LastUpdated(repository)]_vars

\* LastUpdated was called while HEAD is on the third commit, whose committer
\* time is not the time of its author.
C36_Witness ==
    /\ session.last.op = "LastUpdated"
    /\ session.last.head = Hash3
    /\ session.last.when = CommitterWhen(Hash3)
    /\ CommitterWhen(Hash3) # DateOf(Hash3)

\* C37: FileLog returns the date, hash, author and text of the first line,
\* in line order, among the lines of the blame with the greatest date, and
\* the zero GitLog when the blame has no lines.
C37_FileLogFirstOfLatest ==
    session.last.op = "FileLog" =>
        IF session.lines = <<>> THEN session.log = ZeroGitLog
        ELSE \E i \in DOMAIN session.lines :
                /\ session.log = [Date |-> session.lines[i].Date,
                                  Hash |-> session.lines[i].Hash,
                                  Author |-> session.lines[i].Author,
                                  Text |-> session.lines[i].Text]
                /\ \A j \in DOMAIN session.lines :
                       /\ session.lines[j].Date <= session.lines[i].Date
                       /\ j < i => session.lines[j].Date < session.lines[i].Date

\* Three lines; the second and the third share the greatest date and differ
\* in hash and text, and the log is that of the second.
C37_Witness ==
    /\ session.last.op = "FileLog"
    /\ Len(session.lines) = 3
    /\ session.lines[1].Date < session.lines[2].Date
    /\ session.lines[2].Date = session.lines[3].Date
    /\ session.lines[2].Text # session.lines[3].Text
    /\ session.lines[2].Hash # session.lines[3].Hash
    /\ session.log.Text = session.lines[2].Text
    /\ session.log.Hash = session.lines[2].Hash

\* The text of s before its first c, and the text after it.
BeforeFirst(s, c) ==
    SubSeq(s, 1, (CHOOSE x \in DOMAIN s : s[x] = c /\ \A y \in 1..(x - 1) : s[y] # c) - 1)

AfterFirst(s, c) ==
    SubSeq(s, (CHOOSE x \in DOMAIN s : s[x] = c /\ \A y \in 1..(x - 1) : s[y] # c) + 1,
           Len(s))

\* The user[:pass] text of the fragment the pattern captured, "@" removed.
CapturedUserPass(matches) ==
    IF matches[8] # <<>> THEN TrimRight(matches[8], <<"@">>)
    ELSE TrimRight(matches[5], <<"@">>)

\* What the call has to return for the captured text.
SplitsAtFirstColon(frag, p) ==
    IF Contains(frag, ":")
    THEN /\ p.user = BeforeFirst(frag, ":")
         /\ p.pass = AfterFirst(frag, ":")
    ELSE /\ frag # <<>> => p.user = frag
         /\ p.pass = <<>>

\* C38: the username returned for a locator is the text of the captured
\* user[:pass]@ fragment before its first colon and the password all the
\* text after that colon, further colons included; for a fragment without a
\* colon the username is the fragment and the password is empty.
C38_PasswordIsRestAfterFirstColon ==
    (parsed.done /\ parsed.err # "capture groups") =>
        SplitsAtFirstColon(CapturedUserPass(FindStringSubmatch(parsed.url)), parsed)

\* C39: the secret store is consulted only for an ssh reference that names a
\* secret and carries no inline key; a reference that is not ssh never fails
\* credential derivation, one with an inline key fails only when that key
\* does not parse; and an ssh reference without inline key whose secret
\* cannot be fetched or has no sshPrivateKey entry fails.
C39_SecretOnlyWithoutInlineKey ==
    (callers[1].op = "constructAuthMethod" /\ Validate(callers[1].ref).ok) =>
        /\ SecretConsulted(callers[1].ref) =>
               /\ Validate(callers[1].ref).urlType = "ssh"
               /\ callers[1].ref.Secret # ""
               /\ callers[1].ref.PrivateKey = ""
        /\ Validate(callers[1].ref).urlType # "ssh" =>
               callers[1].result.kind = "auth"
        /\ callers[1].ref.PrivateKey # "" =>
               (callers[1].result.kind = "error"
                   <=> /\ Validate(callers[1].ref).urlType = "ssh"
                       /\ ~NewPublicKeys(callers[1].ref.PrivateKey).ok)
        /\ (/\ Validate(callers[1].ref).urlType = "ssh"
            /\ callers[1].ref.PrivateKey = ""
            /\ callers[1].ref.Secret \in {"lookuperr", "nokey"})
           => callers[1].result.err = "auth"

====
